---- MODULE Spec2Model ----
(***************************************************************************)
(* A model of bl3save.py: the GVAS envelope codec, its chained XOR cipher, *)
(* and the mutation API of BL3Save over the character record.              *)
(*                                                                         *)
(* Bytes are integers 0..255, byte strings are sequences of bytes.  Python *)
(* indexes from 0 and TLA+ sequences from 1: a Python index i is the TLA+  *)
(* index i+1, and the operators below keep the Python index as their       *)
(* parameter.                                                              *)
(***************************************************************************)
EXTENDS Integers, Sequences, FiniteSets, TLC

VARIABLES
    cbuf,       \* cipher: the bytearray `data` being transformed in place
    corig,      \* cipher: the bytes the run started from
    cops,       \* cipher: the loops applied so far, oldest first
    sval,       \* strings: the value handed to _write_str
    sfile,      \* strings: the bytes _write_str put in the file
    sread,      \* strings: what _read_str made of those bytes
    sphase,     \* strings: "new", "written" or "read"
    env,        \* envelope: the header fields of the object being saved
    payload,    \* envelope: self.save.SerializeToString() of that object
    efile,      \* envelope: the bytes of the file save_to wrote
    eload,      \* envelope: the outcome of BL3Save(filename) on that file
    ephase,     \* envelope: "new", "saved" or "loaded"
    fault,      \* envelope: how the file being loaded departs from a saved one
    dfState,    \* envelope: the file object of the constructor's with block
    save,       \* record: self.save, the character protobuf
    save0,      \* record: self.save as it was when the last call began
    items,      \* record: self.items, the BL3Item wrappers
    items0,     \* record: self.items as it was when the last call began
    call,       \* record: the last call made and how it ended
    ncalls,     \* record: the number of calls made
    pbContainers \* record: TRUE when repeated fields are protobuf containers

cipherVars == <<cbuf, corig, cops>>
strVars == <<sval, sfile, sread, sphase>>
envVars == <<env, payload, efile, eload, ephase, fault, dfState>>
apiVars == <<save, save0, items, items0, call, ncalls, pbContainers>>

vars == <<cbuf, corig, cops, sval, sfile, sread, sphase,
          env, payload, efile, eload, ephase, fault, dfState,
          save, save0, items, items0, call, ncalls, pbContainers>>

----------------------------------------------------------------------------
(* Bytes and XOR                                                           *)

Byte == 0..255

RECURSIVE BitXor(_, _, _)
BitXor(a, b, n) ==
    IF n = 0 THEN 0
    ELSE (((a % 2) + (b % 2)) % 2) + 2 * BitXor(a \div 2, b \div 2, n - 1)

\* Python's ^ on two bytes
Xor8(a, b) == BitXor(a, b, 8)

----------------------------------------------------------------------------
(* The cipher (the two loops of BL3Save.__init__ and BL3Save.save_to)      *)

\* BL3Save._prefix_magic
prefix_magic ==
    << 113,  52,  54, 179,  86,  99,  37,  95,
       234, 226, 131, 115, 244, 152, 184,  24,
        46, 229,  66,  46,  80, 162,  15,  73,
       135,  36, 230, 101, 154, 240, 124, 215 >>

\* BL3Save._xor_magic
xor_magic ==
    << 124,   7, 105, 131,  49, 126,  12, 130,
        95,  46,  54, 127, 118, 180, 162, 113,
        56,  43, 110, 135,  57,   5,   2, 198,
       205, 216, 177, 204, 161,  51, 249, 182 >>

\* the literal 32 of both loops: the length of the two key tables
KeyLen == 32

\* One iteration of either loop at Python index i: the prior byte b is read
\* from the buffer as it is now, XORed with the xor table, and XORed in place.
CipherStep(data, i) ==
    LET b0 == IF i < KeyLen THEN prefix_magic[i + 1] ELSE data[i - KeyLen + 1]
        b  == Xor8(b0, xor_magic[(i % KeyLen) + 1])
    IN  [data EXCEPT ![i + 1] = Xor8(@, b)]

\* "# Decrypt": for i in range(len(data)-1, -1, -1)
RECURSIVE DecryptLoop(_, _)
DecryptLoop(data, i) ==
    IF i < 0 THEN data ELSE DecryptLoop(CipherStep(data, i), i - 1)

\* A faulty decrypt loop that walks the buffer first to last: the prior
\* byte it reads is then already plaintext.
RECURSIVE DecryptAscendingLoop(_, _)
DecryptAscendingLoop(data, i) ==
    IF i >= Len(data) THEN data
    ELSE DecryptAscendingLoop(CipherStep(data, i), i + 1)

DecryptAscending(data) == DecryptAscendingLoop(data, 0)

Decrypt(data) == DecryptLoop(data, Len(data) - 1)

\* "# Encrypt": for i in range(len(data))
RECURSIVE EncryptLoop(_, _)
EncryptLoop(data, i) ==
    IF i >= Len(data) THEN data ELSE EncryptLoop(CipherStep(data, i), i + 1)

\* A faulty encrypt loop that walks the buffer last to first, as the decrypt
\* loop does: the prior byte it reads is then still plaintext.
EncryptDescending(data) == DecryptLoop(data, Len(data) - 1)

Encrypt(data) == EncryptLoop(data, 0)

----------------------------------------------------------------------------
(* Binary file I/O: struct.pack / struct.unpack over a file object         *)
(*                                                                         *)
(* A file being read is a byte sequence f and a position pos (the number   *)
(* of bytes consumed).  df.read(n) returns the bytes that are there, at    *)
(* most n, and never fails; struct.unpack raises struct.error when it is   *)
(* handed fewer bytes than its format needs.                               *)

Min(a, b) == IF a < b THEN a ELSE b

\* df.read(n) at position pos: the bytes returned
ReadBytes(f, pos, n) == SubSeq(f, pos + 1, Min(pos + n, Len(f)))

\* the position after df.read(n)
ReadPos(f, pos, n) == Min(pos + n, Len(f))

\* the result of a read helper: ok, or the exception raised
Got(val, pos) == [ok |-> TRUE, err |-> "", val |-> val, pos |-> pos]
Raised(err, pos) == [ok |-> FALSE, err |-> err, val |-> 0, pos |-> pos]

\* _read_int: struct.unpack('<I', df.read(4))[0]
_read_int(f, pos) ==
    LET b == ReadBytes(f, pos, 4)
    IN  IF Len(b) < 4 THEN Raised("struct.error", ReadPos(f, pos, 4))
        ELSE Got(b[1] + 256 * b[2] + 65536 * b[3] + 16777216 * b[4], pos + 4)

\* _write_int: df.write(struct.pack('<I', value)), for 0 <= value < 2^32
\* (the values written in this model stay below 2^31, the largest the model
\* checker's integers hold; the four-byte little-endian layout is kept)
_write_int(value) ==
    << value % 256, (value \div 256) % 256,
       (value \div 65536) % 256, (value \div 16777216) % 256 >>

\* _read_short: struct.unpack('<H', df.read(2))[0]
_read_short(f, pos) ==
    LET b == ReadBytes(f, pos, 2)
    IN  IF Len(b) < 2 THEN Raised("struct.error", ReadPos(f, pos, 2))
        ELSE Got(b[1] + 256 * b[2], pos + 2)

\* _write_short: df.write(struct.pack('<H', value)), for 0 <= value < 2^16
_write_short(value) == << value % 256, (value \div 256) % 256 >>

\* _read_guid: df.read(16), returned as it comes (possibly short)
_read_guid(f, pos) == Got(ReadBytes(f, pos, 16), ReadPos(f, pos, 16))

\* _write_guid: df.write(value)
_write_guid(value) == value

----------------------------------------------------------------------------
(* Python str values and str.encode('utf-8') / bytes.decode('utf-8')       *)
(*                                                                         *)
(* A str is the sequence of its code points; an Optional[str] is a record  *)
(* that tells None from the empty string.                                  *)

PyNone == [isNone |-> TRUE, s |-> <<>>]
PyStr(s) == [isNone |-> FALSE, s |-> s]

\* the UTF-8 bytes of one code point (not a surrogate, below 0x110000)
Utf8Char(cp) ==
    IF cp < 128 THEN << cp >>
    ELSE IF cp < 2048 THEN << 192 + (cp \div 64), 128 + (cp % 64) >>
    ELSE IF cp < 65536 THEN
        << 224 + (cp \div 4096), 128 + ((cp \div 64) % 64), 128 + (cp % 64) >>
    ELSE
        << 240 + (cp \div 262144), 128 + ((cp \div 4096) % 64),
           128 + ((cp \div 64) % 64), 128 + (cp % 64) >>

\* value.encode('utf-8')
RECURSIVE Utf8Encode(_)
Utf8Encode(s) ==
    IF s = <<>> THEN <<>> ELSE Utf8Char(Head(s)) \o Utf8Encode(Tail(s))

IsCont(b, k) == k <= Len(b) /\ b[k] \in 128..191

\* the length of the UTF-8 sequence a lead byte announces, 0 for no lead byte
Utf8SeqLen(c) ==
    IF c < 128 THEN 1
    ELSE IF c \in 194..223 THEN 2
    ELSE IF c \in 224..239 THEN 3
    ELSE IF c \in 240..244 THEN 4
    ELSE 0

\* the code point of the sequence of n bytes at b[k]
Utf8CodePoint(b, k, n) ==
    IF n = 1 THEN b[k]
    ELSE IF n = 2 THEN (b[k] - 192) * 64 + (b[k + 1] - 128)
    ELSE IF n = 3 THEN
        (b[k] - 224) * 4096 + (b[k + 1] - 128) * 64 + (b[k + 2] - 128)
    ELSE (b[k] - 240) * 262144 + (b[k + 1] - 128) * 4096
             + (b[k + 2] - 128) * 64 + (b[k + 3] - 128)

\* strict decoding: no overlong form, no surrogate, nothing above 0x10FFFF
Utf8Valid(cp, n) ==
    /\ n = 2 => cp >= 128
    /\ n = 3 => cp >= 2048 /\ cp \notin 55296..57343
    /\ n = 4 => cp >= 65536 /\ cp < 1114112

\* bytes.decode('utf-8') from TLA+ index k on: [ok, s]
RECURSIVE Utf8DecodeFrom(_, _)
Utf8DecodeFrom(b, k) ==
    IF k > Len(b) THEN [ok |-> TRUE, s |-> <<>>]
    ELSE
        LET n == Utf8SeqLen(b[k])
            wellFormed == /\ n > 0
                          /\ \A j \in 1..(n - 1) : IsCont(b, k + j)
        IN  IF ~wellFormed THEN [ok |-> FALSE, s |-> <<>>]
            ELSE
                LET cp == Utf8CodePoint(b, k, n)
                    rest == Utf8DecodeFrom(b, k + n)
                IN  IF Utf8Valid(cp, n) /\ rest.ok
                    THEN [ok |-> TRUE, s |-> << cp >> \o rest.s]
                    ELSE [ok |-> FALSE, s |-> <<>>]

Utf8Decode(b) == Utf8DecodeFrom(b, 1)

----------------------------------------------------------------------------
(* Length-prefixed strings                                                 *)

\* _read_str
_read_str(f, pos) ==
    LET datalen == _read_int(f, pos)
    IN  IF ~datalen.ok THEN datalen
        ELSE IF datalen.val = 0 THEN Got(PyNone, datalen.pos)
        ELSE IF datalen.val = 1 THEN Got(PyStr(<<>>), datalen.pos)
        ELSE
            LET value == ReadBytes(f, datalen.pos, datalen.val)
                after == ReadPos(f, datalen.pos, datalen.val)
                \* value[:-1].decode('utf-8')
                text  == Utf8Decode(SubSeq(value, 1, Len(value) - 1))
            IN  IF text.ok THEN Got(PyStr(text.s), after)
                ELSE Raised("UnicodeDecodeError", after)

\* a faulty _write_str that leaves the terminating NUL out of the data
WriteStrNoNul(value) ==
    IF value.isNone THEN _write_int(0)
    ELSE IF value.s = <<>> THEN _write_int(1)
    ELSE LET data == Utf8Encode(value.s) IN _write_int(Len(data)) \o data

\* _write_str: the bytes it writes
_write_str(value) ==
    IF value.isNone THEN _write_int(0)
    ELSE IF value.s = <<>> THEN _write_int(1)
    ELSE LET data == Utf8Encode(value.s) \o << 0 >>
         IN  _write_int(Len(data)) \o data

----------------------------------------------------------------------------
(* The envelope: BL3Save.save_to and BL3Save.__init__                      *)

\* b'GVAS'
GVAS == << 71, 86, 65, 83 >>

NoEnvelope ==
    [ sg_version |-> 0, pkg_version |-> 0, engine_major |-> 0,
      engine_minor |-> 0, engine_patch |-> 0, engine_build |-> 0,
      build_id |-> PyNone, fmt_version |-> 0, custom_format_data |-> <<>>,
      sg_type |-> PyNone ]

\* the loop "for guid, entry in self.custom_format_data" of save_to
RECURSIVE WriteCustomFormat(_)
WriteCustomFormat(cfd) ==
    IF cfd = <<>> THEN <<>>
    ELSE _write_guid(Head(cfd)[1]) \o _write_int(Head(cfd)[2])
            \o WriteCustomFormat(Tail(cfd))

\* a faulty save_to that writes the blob without its length field
SaveToNoLength(e, serialized) ==
    GVAS
    \o _write_int(e.sg_version) \o _write_int(e.pkg_version)
    \o _write_short(e.engine_major) \o _write_short(e.engine_minor)
    \o _write_short(e.engine_patch) \o _write_int(e.engine_build)
    \o _write_str(e.build_id) \o _write_int(e.fmt_version)
    \o _write_int(Len(e.custom_format_data))
    \o WriteCustomFormat(e.custom_format_data)
    \o _write_str(e.sg_type)
    \o Encrypt(serialized)

\* save_to: the bytes of the file written for the object whose envelope
\* fields are e and whose self.save.SerializeToString() is `serialized`
save_to(e, serialized) ==
    LET data == Encrypt(serialized)
    IN  GVAS
        \o _write_int(e.sg_version) \o _write_int(e.pkg_version)
        \o _write_short(e.engine_major) \o _write_short(e.engine_minor)
        \o _write_short(e.engine_patch) \o _write_int(e.engine_build)
        \o _write_str(e.build_id) \o _write_int(e.fmt_version)
        \o _write_int(Len(e.custom_format_data))
        \o WriteCustomFormat(e.custom_format_data)
        \o _write_str(e.sg_type)
        \o _write_int(Len(data)) \o data

\* the loop "for _ in range(fmt_count)" of __init__
RECURSIVE ReadCustomFormat(_, _, _, _)
ReadCustomFormat(f, pos, count, acc) ==
    IF count = 0 THEN Got(acc, pos)
    ELSE
        LET guid  == _read_guid(f, pos)
            entry == _read_int(f, guid.pos)
        IN  IF ~entry.ok THEN entry
            ELSE ReadCustomFormat(f, entry.pos, count - 1,
                                  Append(acc, << guid.val, entry.val >>))

\* the outcome of the constructor: an object (its envelope fields and the
\* decrypted bytes handed to ParseFromString), or the exception that left
\* the caller without one
Loaded(e, data) == [ok |-> TRUE, err |-> "", env |-> e, data |-> data]
LoadRaised(err) == [ok |-> FALSE, err |-> err, env |-> NoEnvelope, data |-> <<>>]

\* "with open(filename, 'rb') as df": the block's exit closes df, whether the
\* block ran to its end or an exception is leaving it
WithExit(state) == "closed"

\* a file that is what save_to wrote
NoFault == [kind |-> "none", n |-> 0]

\* a faulty constructor that does not look for bytes after the blob
InitNoTrailingCheck(f) ==
    LET header     == ReadBytes(f, 0, 4)
        sg_version == _read_int(f, ReadPos(f, 0, 4))
        pkg_version  == _read_int(f, sg_version.pos)
        engine_major == _read_short(f, pkg_version.pos)
        engine_minor == _read_short(f, engine_major.pos)
        engine_patch == _read_short(f, engine_minor.pos)
        engine_build == _read_int(f, engine_patch.pos)
        build_id     == _read_str(f, engine_build.pos)
        fmt_version  == _read_int(f, build_id.pos)
        fmt_count    == _read_int(f, fmt_version.pos)
        custom_format_data == ReadCustomFormat(f, fmt_count.pos, fmt_count.val, <<>>)
        sg_type      == _read_str(f, custom_format_data.pos)
        remaining_data_len == _read_int(f, sg_type.pos)
        data == ReadBytes(f, remaining_data_len.pos, remaining_data_len.val)
        last == ReadBytes(f, ReadPos(f, remaining_data_len.pos, remaining_data_len.val),
                          Len(f))
    IN  IF header # GVAS THEN LoadRaised("AssertionError")
        ELSE IF ~sg_version.ok THEN LoadRaised(sg_version.err)
        ELSE IF ~pkg_version.ok THEN LoadRaised(pkg_version.err)
        ELSE IF ~engine_major.ok THEN LoadRaised(engine_major.err)
        ELSE IF ~engine_minor.ok THEN LoadRaised(engine_minor.err)
        ELSE IF ~engine_patch.ok THEN LoadRaised(engine_patch.err)
        ELSE IF ~engine_build.ok THEN LoadRaised(engine_build.err)
        ELSE IF ~build_id.ok THEN LoadRaised(build_id.err)
        ELSE IF ~fmt_version.ok THEN LoadRaised(fmt_version.err)
        ELSE IF ~fmt_count.ok THEN LoadRaised(fmt_count.err)
        ELSE IF ~custom_format_data.ok THEN LoadRaised(custom_format_data.err)
        ELSE IF ~sg_type.ok THEN LoadRaised(sg_type.err)
        ELSE IF ~remaining_data_len.ok THEN LoadRaised(remaining_data_len.err)
        ELSE Loaded(
                [ sg_version |-> sg_version.val, pkg_version |-> pkg_version.val,
                  engine_major |-> engine_major.val,
                  engine_minor |-> engine_minor.val,
                  engine_patch |-> engine_patch.val,
                  engine_build |-> engine_build.val,
                  build_id |-> build_id.val, fmt_version |-> fmt_version.val,
                  custom_format_data |-> custom_format_data.val,
                  sg_type |-> sg_type.val ],
                Decrypt(data))

\* BL3Save.__init__ on a file holding the bytes f
BL3Save_init(f) ==
    LET header     == ReadBytes(f, 0, 4)
        sg_version == _read_int(f, ReadPos(f, 0, 4))
        pkg_version  == _read_int(f, sg_version.pos)
        engine_major == _read_short(f, pkg_version.pos)
        engine_minor == _read_short(f, engine_major.pos)
        engine_patch == _read_short(f, engine_minor.pos)
        engine_build == _read_int(f, engine_patch.pos)
        build_id     == _read_str(f, engine_build.pos)
        fmt_version  == _read_int(f, build_id.pos)
        fmt_count    == _read_int(f, fmt_version.pos)
        custom_format_data == ReadCustomFormat(f, fmt_count.pos, fmt_count.val, <<>>)
        sg_type      == _read_str(f, custom_format_data.pos)
        remaining_data_len == _read_int(f, sg_type.pos)
        data == ReadBytes(f, remaining_data_len.pos, remaining_data_len.val)
        last == ReadBytes(f, ReadPos(f, remaining_data_len.pos, remaining_data_len.val),
                          Len(f))
    IN  IF header # GVAS THEN LoadRaised("AssertionError")
        ELSE IF ~sg_version.ok THEN LoadRaised(sg_version.err)
        ELSE IF ~pkg_version.ok THEN LoadRaised(pkg_version.err)
        ELSE IF ~engine_major.ok THEN LoadRaised(engine_major.err)
        ELSE IF ~engine_minor.ok THEN LoadRaised(engine_minor.err)
        ELSE IF ~engine_patch.ok THEN LoadRaised(engine_patch.err)
        ELSE IF ~engine_build.ok THEN LoadRaised(engine_build.err)
        ELSE IF ~build_id.ok THEN LoadRaised(build_id.err)
        ELSE IF ~fmt_version.ok THEN LoadRaised(fmt_version.err)
        ELSE IF ~fmt_count.ok THEN LoadRaised(fmt_count.err)
        ELSE IF ~custom_format_data.ok THEN LoadRaised(custom_format_data.err)
        ELSE IF ~sg_type.ok THEN LoadRaised(sg_type.err)
        ELSE IF ~remaining_data_len.ok THEN LoadRaised(remaining_data_len.err)
        ELSE IF Len(last) # 0 THEN LoadRaised("AssertionError")
        ELSE Loaded(
                [ sg_version |-> sg_version.val, pkg_version |-> pkg_version.val,
                  engine_major |-> engine_major.val,
                  engine_minor |-> engine_minor.val,
                  engine_patch |-> engine_patch.val,
                  engine_build |-> engine_build.val,
                  build_id |-> build_id.val, fmt_version |-> fmt_version.val,
                  custom_format_data |-> custom_format_data.val,
                  sg_type |-> sg_type.val ],
                Decrypt(data))

----------------------------------------------------------------------------
(* The character record (self.save) and the calls made on a BL3Save        *)
(*                                                                         *)
(* `save` holds the fields of the protobuf the methods touch.  The repeated*)
(* fields live in the schema layer's containers, which this file does not  *)
(* define: a build whose containers are plain Python lists keeps the       *)
(* appended object itself and allows item assignment; protobuf's repeated  *)
(* message containers append a copy and refuse item assignment with a      *)
(* TypeError.  pbContainers tells which of the two the run is under; it is *)
(* chosen at the start and never changes.                                  *)

EmptySave ==
    [ mission_playthroughs_data |-> <<>>,
      active_travel_stations_for_playthrough |-> <<>>,
      last_active_travel_station_for_playthrough |-> <<>>,
      game_state_save_data_for_playthrough |-> <<>>,
      inventory_items |-> <<>>,
      equipped_inventory_list |-> <<>>,
      inventory_category_list |-> <<>>,
      sdu_list |-> <<>>,
      resource_pools |-> <<>>,
      challenge_data |-> <<>>,
      nickname_mappings |-> <<>>,
      player_class_path |-> "",
      experience_points |-> 0 ]

\* what a call left behind: the method, its two arguments, whether it
\* returned (ok) or raised (err), for copy_playthrough_data the number of the
\* sub-copy that raised (0 for none), and the value returned
NoCall == [op |-> "", a |-> 0, b |-> 0, ok |-> TRUE, err |-> "", failed |-> 0, ret |-> 0]

Returned(op, a, b, ret) ==
    [op |-> op, a |-> a, b |-> b, ok |-> TRUE, err |-> "", failed |-> 0, ret |-> ret]

Threw(op, a, b, err, failed) ==
    [op |-> op, a |-> a, b |-> b, ok |-> FALSE, err |-> err, failed |-> failed, ret |-> 0]

----------------------------------------------------------------------------
(* Playthrough copies                                                      *)

\* a faulty copy that lacks the "from_pt == to_pt" check
CopyPtNoSameCheck(coll, from_pt, to_pt, assignable) ==
    IF from_pt > Len(coll) - 1 THEN [ok |-> FALSE, err |-> "Exception", coll |-> coll]
    ELSE IF to_pt > Len(coll) THEN [ok |-> FALSE, err |-> "Exception", coll |-> coll]
    ELSE IF from_pt < 0 \/ to_pt < 0 THEN
        [ok |-> FALSE, err |-> "Exception", coll |-> coll]
    ELSE IF to_pt = Len(coll) THEN
        [ok |-> TRUE, err |-> "", coll |-> Append(coll, coll[from_pt + 1])]
    ELSE IF ~assignable THEN [ok |-> FALSE, err |-> "TypeError", coll |-> coll]
    ELSE [ok |-> TRUE, err |-> "", coll |-> [coll EXCEPT ![to_pt + 1] = coll[from_pt + 1]]]

\* a faulty copy that overwrites in the wrong direction
CopyPtSwapped(coll, from_pt, to_pt, assignable) ==
    IF from_pt > Len(coll) - 1 THEN [ok |-> FALSE, err |-> "Exception", coll |-> coll]
    ELSE IF to_pt > Len(coll) THEN [ok |-> FALSE, err |-> "Exception", coll |-> coll]
    ELSE IF from_pt = to_pt THEN [ok |-> FALSE, err |-> "Exception", coll |-> coll]
    ELSE IF from_pt < 0 \/ to_pt < 0 THEN
        [ok |-> FALSE, err |-> "Exception", coll |-> coll]
    ELSE IF to_pt = Len(coll) THEN
        [ok |-> TRUE, err |-> "", coll |-> Append(coll, coll[from_pt + 1])]
    ELSE IF ~assignable THEN [ok |-> FALSE, err |-> "TypeError", coll |-> coll]
    ELSE [ok |-> TRUE, err |-> "", coll |-> [coll EXCEPT ![from_pt + 1] = coll[to_pt + 1]]]

\* The body the four copy_*_pt methods share, on the collection coll:
\* the four checks in the order of the code, then append or overwrite.
\* `assignable` is whether the container takes coll[to_pt] = value.
CopyPt(coll, from_pt, to_pt, assignable) ==
    IF from_pt > Len(coll) - 1 THEN [ok |-> FALSE, err |-> "Exception", coll |-> coll]
    ELSE IF to_pt > Len(coll) THEN [ok |-> FALSE, err |-> "Exception", coll |-> coll]
    ELSE IF from_pt = to_pt THEN [ok |-> FALSE, err |-> "Exception", coll |-> coll]
    ELSE IF from_pt < 0 \/ to_pt < 0 THEN
        [ok |-> FALSE, err |-> "Exception", coll |-> coll]
    ELSE IF to_pt = Len(coll) THEN
        [ok |-> TRUE, err |-> "", coll |-> Append(coll, coll[from_pt + 1])]
    ELSE IF ~assignable THEN [ok |-> FALSE, err |-> "TypeError", coll |-> coll]
    ELSE [ok |-> TRUE, err |-> "", coll |-> [coll EXCEPT ![to_pt + 1] = coll[from_pt + 1]]]

\* copy_mission_pt on the record s (a repeated message field)
copy_mission_pt(s, from_pt, to_pt, pb) ==
    LET r == CopyPt(s.mission_playthroughs_data, from_pt, to_pt, ~pb)
    IN  [ok |-> r.ok, err |-> r.err,
         save |-> [s EXCEPT !.mission_playthroughs_data = r.coll]]

\* copy_active_ft_stations_pt (a repeated message field)
copy_active_ft_stations_pt(s, from_pt, to_pt, pb) ==
    LET r == CopyPt(s.active_travel_stations_for_playthrough, from_pt, to_pt, ~pb)
    IN  [ok |-> r.ok, err |-> r.err,
         save |-> [s EXCEPT !.active_travel_stations_for_playthrough = r.coll]]

\* copy_last_station_pt (a repeated string field: item assignment works)
copy_last_station_pt(s, from_pt, to_pt, pb) ==
    LET r == CopyPt(s.last_active_travel_station_for_playthrough, from_pt, to_pt, TRUE)
    IN  [ok |-> r.ok, err |-> r.err,
         save |-> [s EXCEPT !.last_active_travel_station_for_playthrough = r.coll]]

\* copy_game_state_pt (a repeated message field)
copy_game_state_pt(s, from_pt, to_pt, pb) ==
    LET r == CopyPt(s.game_state_save_data_for_playthrough, from_pt, to_pt, ~pb)
    IN  [ok |-> r.ok, err |-> r.err,
         save |-> [s EXCEPT !.game_state_save_data_for_playthrough = r.coll]]

\* a faulty copy_playthrough_data that restores the record when a sub-copy
\* raises
CopyPlaythroughDataRollback(s, from_pt, to_pt, pb) ==
    LET r1 == copy_mission_pt(s, from_pt, to_pt, pb)
        r2 == copy_active_ft_stations_pt(r1.save, from_pt, to_pt, pb)
        r3 == copy_last_station_pt(r2.save, from_pt, to_pt, pb)
        r4 == copy_game_state_pt(r3.save, from_pt, to_pt, pb)
    IN  IF ~r1.ok THEN [ok |-> FALSE, err |-> r1.err, failed |-> 1, save |-> s]
        ELSE IF ~r2.ok THEN [ok |-> FALSE, err |-> r2.err, failed |-> 2, save |-> s]
        ELSE IF ~r3.ok THEN [ok |-> FALSE, err |-> r3.err, failed |-> 3, save |-> s]
        ELSE IF ~r4.ok THEN [ok |-> FALSE, err |-> r4.err, failed |-> 4, save |-> s]
        ELSE [ok |-> TRUE, err |-> "", failed |-> 0, save |-> r4.save]

\* a faulty copy_playthrough_data that leaves the game state out
CopyPlaythroughDataNoGameState(s, from_pt, to_pt, pb) ==
    LET r1 == copy_mission_pt(s, from_pt, to_pt, pb)
        r2 == copy_active_ft_stations_pt(r1.save, from_pt, to_pt, pb)
        r3 == copy_last_station_pt(r2.save, from_pt, to_pt, pb)
    IN  IF ~r1.ok THEN [ok |-> FALSE, err |-> r1.err, failed |-> 1, save |-> r1.save]
        ELSE IF ~r2.ok THEN [ok |-> FALSE, err |-> r2.err, failed |-> 2, save |-> r2.save]
        ELSE IF ~r3.ok THEN [ok |-> FALSE, err |-> r3.err, failed |-> 3, save |-> r3.save]
        ELSE [ok |-> TRUE, err |-> "", failed |-> 0, save |-> r3.save]

\* copy_playthrough_data: the four calls in sequence; an exception leaves
\* the method at the call that raised it
copy_playthrough_data(s, from_pt, to_pt, pb) ==
    LET r1 == copy_mission_pt(s, from_pt, to_pt, pb)
        r2 == copy_active_ft_stations_pt(r1.save, from_pt, to_pt, pb)
        r3 == copy_last_station_pt(r2.save, from_pt, to_pt, pb)
        r4 == copy_game_state_pt(r3.save, from_pt, to_pt, pb)
    IN  IF ~r1.ok THEN [ok |-> FALSE, err |-> r1.err, failed |-> 1, save |-> r1.save]
        ELSE IF ~r2.ok THEN [ok |-> FALSE, err |-> r2.err, failed |-> 2, save |-> r2.save]
        ELSE IF ~r3.ok THEN [ok |-> FALSE, err |-> r3.err, failed |-> 3, save |-> r3.save]
        ELSE IF ~r4.ok THEN [ok |-> FALSE, err |-> r4.err, failed |-> 4, save |-> r4.save]
        ELSE [ok |-> TRUE, err |-> "", failed |-> 0, save |-> r4.save]

----------------------------------------------------------------------------
(* Items and equipment slots                                               *)

\* The Catalog's slot tables (bl3save/__init__.py): slot constant <-> the
\* slot_data_path stored in the record.
Slots == { "weapon1", "shield" }
slot_to_slotobj == [ sl \in Slots |-> IF sl = "weapon1" THEN "BPInvSlot_Weapon1"
                                      ELSE "BPInvSlot_Shield" ]
SlotObjs == { slot_to_slotobj[sl] : sl \in Slots }
slotobj_to_slot == [ p \in SlotObjs |-> CHOOSE sl \in Slots : slot_to_slotobj[sl] = p ]

\* OakInventoryItemSaveGameData(...)
ItemPb(serial, idx, flags, skin) ==
    [ item_serial_number |-> serial, pickup_order_index |-> idx,
      flags |-> flags, weapon_skin_path |-> skin ]

NoPb == ItemPb(0, 0, 0, "")

\* a faulty create that sets the favorite and the trash bit independently
CreateBothFlags(serial_number, pickup_order_idx, skin_path, is_seen, is_favorite, is_trash) ==
    ItemPb(serial_number, pickup_order_idx,
           (IF is_seen THEN 1 ELSE 0) + (IF is_favorite THEN 2 ELSE 0)
                + (IF is_trash THEN 4 ELSE 0),
           skin_path)

\* BL3Item.create: the protobuf of the new item.  The flag bits are
\* disjoint, so each |= adds its bit.
BL3Item_create(serial_number, pickup_order_idx, skin_path, is_seen, is_favorite, is_trash) ==
    LET seen == IF is_seen THEN 1 ELSE 0
        fav  == IF is_favorite THEN 2 ELSE IF is_trash THEN 4 ELSE 0
    IN  ItemPb(serial_number, pickup_order_idx, seen + fav, skin_path)

\* A BL3Item wraps a protobuf.  ref > 0: the protobuf is entry ref (counted
\* from 1) of save.inventory_items itself; ref = 0: the wrapper holds a
\* protobuf of its own, pb, that the record has no reference to.
View(ref) == [ref |-> ref, pb |-> NoPb]
Detached(pb) == [ref |-> 0, pb |-> pb]

\* item.protobuf
Protobuf(s, item) == IF item.ref > 0 THEN s.inventory_items[item.ref] ELSE item.pb

\* "self.items = [BL3Item(i) for i in self.save.inventory_items]"
WrapItems(s) == [k \in 1..Len(s.inventory_items) |-> View(k)]

\* get_equipped_items, from entry k of the list on: the dict built so far
\* maps a slot to the position (from 1) of its wrapper in self.items, 0 for
\* None; a later entry for the same slot replaces an earlier one.
RECURSIVE EquippedFrom(_, _, _, _)
EquippedFrom(s, its, k, acc) ==
    IF k > Len(s.equipped_inventory_list) THEN [ok |-> TRUE, err |-> "", dict |-> acc]
    ELSE
        LET equip == s.equipped_inventory_list[k]
        IN  IF equip.slot_data_path \notin DOMAIN slotobj_to_slot
            THEN [ok |-> FALSE, err |-> "KeyError", dict |-> acc]
            ELSE
                LET key == slotobj_to_slot[equip.slot_data_path]
                    idx == equip.inventory_list_index
                IN  IF idx >= 0 /\ idx >= Len(its)
                    THEN [ok |-> FALSE, err |-> "IndexError", dict |-> acc]
                    ELSE EquippedFrom(s, its, k + 1,
                            (key :> (IF idx >= 0 THEN idx + 1 ELSE 0)) @@ acc)

get_equipped_items(s, its) == EquippedFrom(s, its, 1, << >>)

\* get_equipped_item_slot: the position of the wrapper, 0 for None
get_equipped_item_slot(s, its, slot) ==
    LET got == get_equipped_items(s, its)
    IN  IF ~got.ok THEN [ok |-> FALSE, err |-> got.err, item |-> 0]
        ELSE [ok |-> TRUE, err |-> "",
              item |-> IF slot \in DOMAIN got.dict THEN got.dict[slot] ELSE 0]

\* the loop of add_new_item: the largest pickup_order_index, at least 0
RECURSIVE MaxPickupOrder(_, _, _, _)
MaxPickupOrder(s, its, k, max_pickup_order) ==
    IF k > Len(its) THEN max_pickup_order
    ELSE LET idx == Protobuf(s, its[k]).pickup_order_index
         IN  MaxPickupOrder(s, its, k + 1,
                            IF idx > max_pickup_order THEN idx ELSE max_pickup_order)

\* a faulty add_new_item that numbers the new item by the size of the list
AddNewItemByCount(s, its, itemdata, pb) ==
    LET new_pb == BL3Item_create(itemdata, Len(its) + 1, "", TRUE, TRUE, FALSE)
        s2 == [s EXCEPT !.inventory_items = Append(@, new_pb)]
        new_item == IF pb THEN Detached(new_pb) ELSE View(Len(s2.inventory_items))
    IN  [save |-> s2, items |-> Append(its, new_item), new_index |-> Len(its)]

\* add_new_item: the record and the wrapper list afterwards, and the index
\* returned.  A protobuf container appends a copy of new_item.protobuf, so
\* the wrapper keeps a protobuf the record does not hold; a list appends the
\* object itself.
add_new_item(s, its, itemdata, pb) ==
    LET max_pickup_order == MaxPickupOrder(s, its, 1, 0)
        new_pb == BL3Item_create(itemdata, max_pickup_order + 1, "", TRUE, TRUE, FALSE)
        s2 == [s EXCEPT !.inventory_items = Append(@, new_pb)]
        new_item == IF pb THEN Detached(new_pb) ELSE View(Len(s2.inventory_items))
    IN  [save |-> s2, items |-> Append(its, new_item), new_index |-> Len(its)]

\* a faulty set_serial_number_data that also resets the flags
SetSerialResetFlags(s, its, pos, new_data) ==
    IF its[pos].ref > 0
    THEN [save |-> [s EXCEPT !.inventory_items[its[pos].ref] =
                        [@ EXCEPT !.item_serial_number = new_data, !.flags = 1]],
          items |-> its]
    ELSE [save |-> s,
          items |-> [its EXCEPT ![pos].pb =
                        [@ EXCEPT !.item_serial_number = new_data, !.flags = 1]]]

\* BL3Item.set_serial_number_data on the wrapper at position pos of
\* self.items: the write goes to the protobuf the wrapper holds
set_serial_number_data(s, its, pos, new_data) ==
    IF its[pos].ref > 0
    THEN [save |-> [s EXCEPT !.inventory_items[its[pos].ref].item_serial_number = new_data],
          items |-> its]
    ELSE [save |-> s,
          items |-> [its EXCEPT ![pos].pb.item_serial_number = new_data]]

\* the position (from 1) of the first entry whose slot_data_path is slot_obj,
\* 0 when there is none: the loop with `break` of overwrite_item_in_slot
RECURSIVE FirstEquip(_, _, _)
FirstEquip(list, slot_obj, k) ==
    IF k > Len(list) THEN 0
    ELSE IF list[k].slot_data_path = slot_obj THEN k
    ELSE FirstEquip(list, slot_obj, k + 1)

\* EquippedInventorySaveGameData(...)
EquipPb(idx, slot_obj) ==
    [ inventory_list_index |-> idx, enabled |-> 0,
      slot_data_path |-> slot_obj, trinket_data_path |-> "" ]

\* overwrite_item_in_slot
overwrite_item_in_slot(s, its, slot, itemdata, pb) ==
    LET got == get_equipped_item_slot(s, its, slot)
    IN  IF ~got.ok THEN [ok |-> FALSE, err |-> got.err, save |-> s, items |-> its]
        ELSE IF got.item # 0 THEN
            LET w == set_serial_number_data(s, its, got.item, itemdata)
            IN  [ok |-> TRUE, err |-> "", save |-> w.save, items |-> w.items]
        ELSE
            LET added == add_new_item(s, its, itemdata, pb)
            IN  IF slot \notin DOMAIN slot_to_slotobj
                THEN [ok |-> FALSE, err |-> "KeyError",
                      save |-> added.save, items |-> added.items]
                ELSE
                    LET slot_obj == slot_to_slotobj[slot]
                        list == added.save.equipped_inventory_list
                        found == FirstEquip(list, slot_obj, 1)
                        list2 == IF found # 0
                                 THEN [list EXCEPT ![found].inventory_list_index =
                                                        added.new_index]
                                 ELSE Append(list, EquipPb(added.new_index, slot_obj))
                    IN  [ok |-> TRUE, err |-> "",
                         save |-> [added.save EXCEPT !.equipped_inventory_list = list2],
                         items |-> added.items]

----------------------------------------------------------------------------
(* Catalog-backed accessors                                                *)
(*                                                                         *)
(* The Catalog tables come from bl3save/__init__.py; the model keeps two   *)
(* categories of each kind.                                                *)

\* curhash_to_currency
curhash_to_currency == (11 :> "MONEY") @@ (22 :> "ERIDIUM")

\* sduobj_to_sdu, sdu_to_sduobj, sdu_to_max; sdu_to_eng has the same keys
sduobj_to_sdu == ("SDU_Backpack" :> "BACKPACK") @@ ("SDU_SniperRifle" :> "SNIPER")
sdu_to_sduobj == ("BACKPACK" :> "SDU_Backpack") @@ ("SNIPER" :> "SDU_SniperRifle")
sdu_to_max == ("BACKPACK" :> 13) @@ ("SNIPER" :> 10)
sdu_to_eng == ("BACKPACK" :> "Backpack") @@ ("SNIPER" :> "Sniper")

\* ammoobj_to_ammo, ammo_to_max
ammoobj_to_ammo == ("Resource_Ammo_Pistol" :> "PISTOL") @@ ("Resource_Ammo_Grenade" :> "GRENADE")
ammo_to_max == ("PISTOL" :> 1000) @@ ("GRENADE" :> 11)

\* challengeobj_to_challenge, challenge_char_lock, classobj_to_class
challengeobj_to_challenge ==
    ("Challenge_Artifact" :> "ARTIFACT") @@ ("Challenge_PetSlot" :> "BEASTMASTER_COM")
challenge_char_lock == ("BEASTMASTER_COM" :> "BEASTMASTER")
classobj_to_class == ("PlayerClassId_Beastmaster" :> "BEASTMASTER")
                        @@ ("PlayerClassId_Gunner" :> "GUNNER")

\* petkey_to_pet: its keys are lower case
petkey_to_pet == ([base |-> "skag", upper |-> FALSE] :> "SKAG")
                    @@ ([base |-> "spiderant", upper |-> FALSE] :> "SPIDERANT")

\* str.lower() on a key, a name that is or is not in upper case
Lower(key) == [key EXCEPT !.upper = FALSE]

\* a value returned where None can be returned too
Just(v) == [isNone |-> FALSE, s |-> v]

\* the outcome of an accessor
Ret(v) == [ok |-> TRUE, err |-> "", ret |-> v]
Raise(err) == [ok |-> FALSE, err |-> err, ret |-> 0]

\* get_currency, from entry k of inventory_category_list on
RECURSIVE GetCurrencyFrom(_, _, _)
GetCurrencyFrom(s, currency_type, k) ==
    IF k > Len(s.inventory_category_list) THEN Ret(0)
    ELSE
        LET cat_save_data == s.inventory_category_list[k]
            h == cat_save_data.base_category_definition_hash
        IN  IF h \in DOMAIN curhash_to_currency /\ currency_type = curhash_to_currency[h]
            THEN Ret(cat_save_data.quantity)
            ELSE GetCurrencyFrom(s, currency_type, k + 1)

get_currency(s, currency_type) == GetCurrencyFrom(s, currency_type, 1)

\* get_sdus, from entry k on: the dict so far, or KeyError
RECURSIVE GetSdusFrom(_, _, _)
GetSdusFrom(s, k, to_ret) ==
    IF k > Len(s.sdu_list) THEN Ret(to_ret)
    ELSE
        LET sdu == s.sdu_list[k]
        IN  IF sdu.sdu_data_path \notin DOMAIN sduobj_to_sdu THEN Raise("KeyError")
            ELSE GetSdusFrom(s, k + 1,
                    (sduobj_to_sdu[sdu.sdu_data_path] :> sdu.sdu_level) @@ to_ret)

get_sdus(s) == GetSdusFrom(s, 1, << >>)

\* get_sdu
get_sdu(s, sdu) ==
    LET sdus == get_sdus(s)
    IN  IF ~sdus.ok THEN sdus
        ELSE IF sdu \in DOMAIN sdus.ret THEN Ret(sdus.ret[sdu])
        ELSE Ret(0)

\* the first loop of set_max_sdus, from entry k on: each entry's category
\* is looked up, taken out of all_sdus and set to its maximum; either lookup
\* can raise KeyError, which leaves the earlier entries raised
RECURSIVE SetMaxSdusFrom(_, _, _)
SetMaxSdusFrom(s, k, all_sdus) ==
    IF k > Len(s.sdu_list) THEN [ok |-> TRUE, err |-> "", save |-> s, all_sdus |-> all_sdus]
    ELSE
        LET path == s.sdu_list[k].sdu_data_path
        IN  IF path \notin DOMAIN sduobj_to_sdu
            THEN [ok |-> FALSE, err |-> "KeyError", save |-> s, all_sdus |-> all_sdus]
            ELSE
                LET sdu_key == sduobj_to_sdu[path]
                IN  IF sdu_key \notin all_sdus
                    THEN [ok |-> FALSE, err |-> "KeyError", save |-> s,
                          all_sdus |-> all_sdus]
                    ELSE SetMaxSdusFrom(
                            [s EXCEPT !.sdu_list[k].sdu_level = sdu_to_max[sdu_key]],
                            k + 1, all_sdus \ { sdu_key })

\* the second loop of set_max_sdus: the categories still in all_sdus are
\* appended in the order the set yields them; `order` lists every category
\* in that order
RECURSIVE AppendMissingSdus(_, _, _)
AppendMissingSdus(list, all_sdus, order) ==
    IF order = <<>> THEN list
    ELSE AppendMissingSdus(
            IF Head(order) \in all_sdus
            THEN Append(list, [sdu_data_path |-> sdu_to_sduobj[Head(order)],
                               sdu_level |-> sdu_to_max[Head(order)]])
            ELSE list,
            all_sdus, Tail(order))

\* a faulty set_max_sdus without the second loop
SetMaxSdusExistingOnly(s, order) ==
    LET r == SetMaxSdusFrom(s, 1, DOMAIN sdu_to_eng)
    IN  [ok |-> r.ok, err |-> r.err, save |-> r.save]

\* set_max_sdus
set_max_sdus(s, order) ==
    LET r == SetMaxSdusFrom(s, 1, DOMAIN sdu_to_eng)
    IN  IF ~r.ok THEN [ok |-> FALSE, err |-> r.err, save |-> r.save]
        ELSE [ok |-> TRUE, err |-> "",
              save |-> [r.save EXCEPT !.sdu_list =
                            AppendMissingSdus(@, r.all_sdus, order)]]

\* A pool's amount is a float; the model keeps it in tenths, so that
\* int(pool.amount) is the division that drops the fraction.
Tenths == 10
FloatOf(n) == n * Tenths
IntOf(amount) == amount \div Tenths

\* get_ammo_counts, from entry k on
RECURSIVE GetAmmoCountsFrom(_, _, _)
GetAmmoCountsFrom(s, k, to_ret) ==
    IF k > Len(s.resource_pools) THEN Ret(to_ret)
    ELSE
        LET pool == s.resource_pools[k]
        IN  IF pool.resource_path \notin DOMAIN ammoobj_to_ammo THEN Raise("KeyError")
            ELSE GetAmmoCountsFrom(s, k + 1,
                    (ammoobj_to_ammo[pool.resource_path] :> IntOf(pool.amount)) @@ to_ret)

get_ammo_counts(s) == GetAmmoCountsFrom(s, 1, << >>)

\* get_ammo_count
get_ammo_count(s, ammo) ==
    LET ammo_vals == get_ammo_counts(s)
    IN  IF ~ammo_vals.ok THEN ammo_vals
        ELSE IF ammo \in DOMAIN ammo_vals.ret THEN Ret(ammo_vals.ret[ammo])
        ELSE Ret(0)

\* a faulty set_max_ammo that, like set_max_sdus, goes on to append a pool
\* for every category the record has no pool for
SetMaxAmmoAppending(s) ==
    LET raised == [k \in 1..Len(s.resource_pools) |->
                     IF s.resource_pools[k].resource_path \in DOMAIN ammoobj_to_ammo
                     THEN [s.resource_pools[k] EXCEPT !.amount =
                             FloatOf(ammo_to_max[ammoobj_to_ammo[
                                 s.resource_pools[k].resource_path]])]
                     ELSE s.resource_pools[k]]
        missing == { p \in DOMAIN ammoobj_to_ammo :
                        \A k \in 1..Len(raised) : raised[k].resource_path # p }
        RECURSIVE AppendPools(_, _)
        AppendPools(list, paths) ==
            IF paths = {} THEN list
            ELSE LET p == CHOOSE x \in paths : TRUE
                 IN  AppendPools(
                        Append(list, [resource_path |-> p,
                                      amount |-> FloatOf(ammo_to_max[ammoobj_to_ammo[p]])]),
                        paths \ { p })
    IN  [s EXCEPT !.resource_pools = AppendPools(raised, missing)]

\* set_max_ammo: the pools whose path the Catalog knows are set to their
\* maximum; nothing is appended and nothing raises
set_max_ammo(s) ==
    LET pools == s.resource_pools
    IN  [s EXCEPT !.resource_pools =
            [k \in 1..Len(pools) |->
                IF pools[k].resource_path \in DOMAIN ammoobj_to_ammo
                THEN LET ammo_key == ammoobj_to_ammo[pools[k].resource_path]
                     IN  [pools[k] EXCEPT !.amount = FloatOf(ammo_to_max[ammo_key])]
                ELSE pools[k]]]

\* get_class
get_class(s) ==
    IF s.player_class_path \in DOMAIN classobj_to_class
    THEN Ret(classobj_to_class[s.player_class_path])
    ELSE Raise("KeyError")

\* get_interesting_challenges, from entry k on
RECURSIVE GetChallengesFrom(_, _, _)
GetChallengesFrom(s, k, to_ret) ==
    IF k > Len(s.challenge_data) THEN Ret(to_ret)
    ELSE
        LET chal == s.challenge_data[k]
        IN  IF chal.challenge_class_path \notin DOMAIN challengeobj_to_challenge
            THEN GetChallengesFrom(s, k + 1, to_ret)
            ELSE
                LET chal_type == challengeobj_to_challenge[chal.challenge_class_path]
                    kept == (chal_type :> chal.currently_completed) @@ to_ret
                IN  IF chal_type \notin DOMAIN challenge_char_lock
                    THEN GetChallengesFrom(s, k + 1, kept)
                    ELSE IF ~get_class(s).ok THEN Raise(get_class(s).err)
                    ELSE IF challenge_char_lock[chal_type] = get_class(s).ret
                    THEN GetChallengesFrom(s, k + 1, kept)
                    ELSE GetChallengesFrom(s, k + 1, to_ret)

get_interesting_challenges(s) == GetChallengesFrom(s, 1, << >>)

\* get_interesting_challenge
get_interesting_challenge(s, chal_type) ==
    LET challenges == get_interesting_challenges(s)
    IN  IF ~challenges.ok THEN challenges
        ELSE IF chal_type \in DOMAIN challenges.ret THEN Ret(Just(challenges.ret[chal_type]))
        ELSE Ret(PyNone)

\* get_pet_names, from entry k on
RECURSIVE GetPetNamesFrom(_, _, _)
GetPetNamesFrom(s, k, ret) ==
    IF k > Len(s.nickname_mappings) THEN Ret(ret)
    ELSE
        LET name == s.nickname_mappings[k]
        IN  IF Lower(name.key) \notin DOMAIN petkey_to_pet THEN Raise("KeyError")
            ELSE GetPetNamesFrom(s, k + 1,
                    (petkey_to_pet[Lower(name.key)] :> name.value) @@ ret)

get_pet_names(s) == GetPetNamesFrom(s, 1, << >>)

\* get_pet_name
get_pet_name(s, pet_type) ==
    LET pet_names == get_pet_names(s)
    IN  IF ~pet_names.ok THEN pet_names
        ELSE IF pet_type \in DOMAIN pet_names.ret THEN Ret(Just(pet_names.ret[pet_type]))
        ELSE Ret(PyNone)

----------------------------------------------------------------------------
(* Cipher runs: a buffer from a bounded family, then the two loops applied *)
(* in any order.                                                           *)

MaxDataLen == 34
MaxCipherOps == 2

PatternBases == {0, 113, 255}
PatternSteps == {0, 1, 37}

\* the byte string of length n whose byte at Python index i is base + i*step
Pattern(n, base, step) == [k \in 1..n |-> (base + ((k - 1) * step)) % 256]

CipherInputs ==
    { Pattern(n, base, step) :
        n \in 0..MaxDataLen, base \in PatternBases, step \in PatternSteps }

CipherIdle == cbuf = <<>> /\ corig = <<>> /\ cops = <<>>

StrIdle ==
    /\ sval = PyNone
    /\ sfile = <<>>
    /\ sread = Got(PyNone, 0)
    /\ sphase = "idle"

EnvIdle ==
    /\ env = NoEnvelope
    /\ payload = <<>>
    /\ efile = <<>>
    /\ eload = LoadRaised("")
    /\ ephase = "idle"
    /\ fault = NoFault
    /\ dfState = "unopened"

ApiIdle ==
    /\ save = EmptySave
    /\ save0 = EmptySave
    /\ items = <<>>
    /\ items0 = <<>>
    /\ call = NoCall
    /\ ncalls = 0
    /\ pbContainers = FALSE

CipherInit ==
    /\ corig \in CipherInputs
    /\ cbuf = corig
    /\ cops = <<>>
    /\ StrIdle
    /\ EnvIdle
    /\ ApiIdle

Obscure ==
    /\ Len(cops) < MaxCipherOps
    /\ cbuf' = Encrypt(cbuf)
    /\ cops' = Append(cops, "obscure")
    /\ UNCHANGED <<corig, strVars, envVars, apiVars>>

Restore ==
    /\ Len(cops) < MaxCipherOps
    /\ cbuf' = Decrypt(cbuf)
    /\ cops' = Append(cops, "restore")
    /\ UNCHANGED <<corig, strVars, envVars, apiVars>>

CipherNext == Obscure \/ Restore

SpecCipher == CipherInit /\ [][CipherNext]_vars

\* the number of obscure loops applied minus the number of restore loops
RECURSIVE NetObscured(_)
NetObscured(ops) ==
    IF ops = <<>> THEN 0
    ELSE (IF Head(ops) = "obscure" THEN 1 ELSE -1) + NetObscured(Tail(ops))

\* C1: restore(obscure(b)) = b and obscure(restore(b)) = b for every byte
\* sequence b, shorter than the 32-byte tables as well as longer; both loops
\* keep the length of b.
C1_CipherRoundTrip ==
    /\ Len(cbuf) = Len(corig)
    /\ (cops # <<>> /\ NetObscured(cops) = 0) => cbuf = corig

\* a buffer longer than the key tables has been obscured and then restored
C1_Witness ==
    /\ cops = <<"obscure", "restore">>
    /\ Len(corig) > KeyLen
    /\ cbuf = corig
    /\ Encrypt(corig) # corig

\* the byte a chained cipher XORs into position i (a Python index) when the
\* chain runs over the stream `chain`
ChainKey(chain, i) ==
    Xor8(IF i < KeyLen THEN prefix_magic[i + 1] ELSE chain[i - KeyLen + 1],
         xor_magic[(i % KeyLen) + 1])

\* cipher is plain with every byte XORed with the key chained on `chain`
ChainedOn(plain, cipher, chain) ==
    /\ Len(cipher) = Len(plain)
    /\ \A i \in 0..(Len(plain) - 1) :
            cipher[i + 1] = Xor8(plain[i + 1], ChainKey(chain, i))

\* C15: obscure produces ciphertext[i] = plaintext[i] XOR xor[i mod 32] XOR
\* (seed[i] if i < 32, else ciphertext[i-32]), restore produces
\* plaintext[i] = ciphertext[i] XOR xor[i mod 32] XOR (seed[i] if i < 32,
\* else ciphertext[i-32]): both chain on the ciphertext, the bytes obscure
\* has already written and the bytes restore has not yet touched.
C15_CipherChain ==
    /\ cops = << "obscure" >> => ChainedOn(corig, cbuf, cbuf)
    /\ cops = << "restore" >> => ChainedOn(cbuf, corig, corig)

\* a buffer longer than the key tables has been obscured, and chaining on
\* its plaintext would have given other bytes
C15_Witness ==
    /\ cops = << "obscure" >>
    /\ Len(corig) > KeyLen
    /\ ChainedOn(corig, cbuf, cbuf)
    /\ ~ChainedOn(corig, cbuf, corig)

\* a buffer longer than the key tables has been restored, and chaining on
\* the restored bytes would have given other bytes
C15_WitnessRestore ==
    /\ cops = << "restore" >>
    /\ Len(corig) > KeyLen
    /\ ChainedOn(cbuf, corig, corig)
    /\ ~ChainedOn(cbuf, corig, cbuf)

----------------------------------------------------------------------------
(* String runs: a value is written with _write_str, then the bytes are     *)
(* read back with _read_str from the start of the file.                   *)

MaxStrLen == 3

\* 'h', U+00E9, U+20AC and U+1F600: one code point of each UTF-8 length
CodePoints == {104, 233, 8364, 128512}

RECURSIVE SeqsUpTo(_, _)
SeqsUpTo(S, n) ==
    IF n = 0 THEN { <<>> }
    ELSE LET shorter == SeqsUpTo(S, n - 1)
         IN  shorter \cup { Append(q, x) : q \in shorter, x \in S }

\* None, '' and every string of 1..MaxStrLen code points, none of them NUL
StrInputs == { PyNone } \cup { PyStr(s) : s \in SeqsUpTo(CodePoints, MaxStrLen) }

StrInit ==
    /\ sval \in StrInputs
    /\ sfile = <<>>
    /\ sread = Got(PyNone, 0)
    /\ sphase = "new"
    /\ CipherIdle
    /\ EnvIdle
    /\ ApiIdle

WriteStr ==
    /\ sphase = "new"
    /\ sfile' = _write_str(sval)
    /\ sphase' = "written"
    /\ UNCHANGED <<sval, sread, cipherVars, envVars, apiVars>>

ReadStr ==
    /\ sphase = "written"
    /\ sread' = _read_str(sfile, 0)
    /\ sphase' = "read"
    /\ UNCHANGED <<sval, sfile, cipherVars, envVars, apiVars>>

StrNext == WriteStr \/ ReadStr

SpecStr == StrInit /\ [][StrNext]_vars

\* C3: for s None, the empty string or a string without NUL, reading back
\* what _write_str(s) wrote returns s; None and '' are written differently
\* and read back as different values.
C3_StrRoundTrip ==
    /\ sphase = "read" => sread.ok /\ sread.val = sval
    /\ sphase # "new" =>
          /\ (sfile = _write_int(0)) <=> sval.isNone
          /\ (sfile = _write_int(1)) <=> (sval = PyStr(<<>>))

\* a string with a multi-byte character has been written and read back
C3_Witness ==
    /\ sphase = "read"
    /\ sval = PyStr(<< 104, 233, 8364 >>)
    /\ sread.val = sval
    /\ Len(sfile) = 4 + 7

\* the length a written string declares in its first four bytes
DeclaredLen(f) == f[1] + 256 * f[2] + 65536 * f[3] + 16777216 * f[4]

\* C16: a written string is a u32 length L followed by exactly L bytes, for
\* every L, L = 1 (the empty string and its NUL) included: _write_str emits
\* 4 + L bytes and _read_str consumes 4 + L bytes.
C16_StrLengthExact ==
    /\ sphase # "new" => Len(sfile) = 4 + DeclaredLen(sfile)
    /\ sphase = "read" => sread.ok /\ sread.pos = 4 + DeclaredLen(sfile)

\* what the two helpers do: the count is exact for every written string but
\* the empty one, which is the length 1 with no byte after it, written and
\* read alike
StrLengthOutcome ==
    /\ (sphase # "new" /\ sval # PyStr(<<>>)) =>
            Len(sfile) = 4 + DeclaredLen(sfile)
    /\ (sphase = "read" /\ sval # PyStr(<<>>)) =>
            sread.pos = 4 + DeclaredLen(sfile)
    /\ (sphase # "new" /\ sval = PyStr(<<>>)) =>
            DeclaredLen(sfile) = 1 /\ Len(sfile) = 4
    /\ (sphase = "read" /\ sval = PyStr(<<>>)) => sread.pos = 4

----------------------------------------------------------------------------
(* Envelope runs: an object is saved with save_to and the file is loaded.  *)

MaxFmtCount == 2

GuidA == Pattern(16, 1, 1)
GuidB == Pattern(16, 255, 0)
FmtEntries == { << GuidA, 1 >>, << GuidB, 2147483647 >> }

EnvelopeInputs ==
    [ sg_version : {2, 2147483647},
      pkg_version : {0, 517},
      engine_major : {4},
      engine_minor : {20, 65535},
      engine_patch : {3},
      engine_build : {16909060},
      build_id : { PyNone, PyStr(<<>>), PyStr(<< 104, 233 >>) },
      fmt_version : {3},
      custom_format_data : SeqsUpTo(FmtEntries, MaxFmtCount),
      sg_type : { PyStr(<<>>), PyStr(<< 104 >>) } ]

\* serialized records: empty, shorter than the key tables, and longer
PayloadInputs == { Pattern(n, 10, 3) : n \in {0, 3, KeyLen + 1} }

EnvInit ==
    /\ env \in EnvelopeInputs
    /\ payload \in PayloadInputs
    /\ efile = <<>>
    /\ eload = LoadRaised("")
    /\ ephase = "new"
    /\ fault = NoFault
    /\ dfState = "unopened"
    /\ CipherIdle
    /\ StrIdle
    /\ ApiIdle

SaveTo ==
    /\ ephase = "new"
    /\ efile' = save_to(env, payload)
    /\ ephase' = "saved"
    /\ UNCHANGED <<env, payload, eload, fault, dfState,
                   cipherVars, strVars, apiVars>>

Load ==
    /\ ephase = "saved"
    /\ eload' = BL3Save_init(efile)
    /\ dfState' = WithExit(dfState)
    /\ ephase' = "loaded"
    /\ UNCHANGED <<env, payload, efile, fault, cipherVars, strVars, apiVars>>

EnvNext == SaveTo \/ Load

SpecEnvelope == EnvInit /\ [][EnvNext]_vars

\* C2: loading the bytes save_to wrote for envelope e and payload p yields
\* the same envelope fields, the same ordered custom-format pairs and the
\* same payload.
C2_EnvelopeRoundTrip ==
    ephase = "loaded" =>
        /\ eload.ok
        /\ eload.env = env
        /\ eload.env.custom_format_data = env.custom_format_data
        /\ eload.data = payload

\* an envelope with two different custom-format entries, an empty build id
\* and a payload longer than the key tables has been saved and loaded
C2_Witness ==
    /\ ephase = "loaded"
    /\ eload.ok
    /\ env.custom_format_data = << << GuidA, 1 >>, << GuidB, 2147483647 >> >>
    /\ eload.env.custom_format_data = env.custom_format_data
    /\ env.build_id = PyStr(<<>>)
    /\ Len(payload) > KeyLen
    /\ eload.data = payload

----------------------------------------------------------------------------
(* Playthrough runs: a record whose four collections have any lengths up   *)
(* to MaxPt (the single copies can make them differ), then one copy call.  *)

MaxPt == 2

\* from_pt and to_pt: every index of a collection, one below and above
PtArgs == (-1)..(MaxPt + 1)

\* a collection of n playthroughs, each element different from the others
PtColl(n) == [k \in 1..n |-> k]

PtInit ==
    /\ \E n1, n2, n3, n4 \in 0..MaxPt :
          save = [EmptySave EXCEPT
                    !.mission_playthroughs_data = PtColl(n1),
                    !.active_travel_stations_for_playthrough = PtColl(n2),
                    !.last_active_travel_station_for_playthrough = PtColl(n3),
                    !.game_state_save_data_for_playthrough = PtColl(n4)]
    /\ save0 = save
    /\ items = <<>>
    /\ items0 = <<>>
    /\ call = NoCall
    /\ ncalls = 0
    /\ pbContainers \in BOOLEAN
    /\ CipherIdle
    /\ StrIdle
    /\ EnvIdle

\* one single-collection copy, or the composite
CallCopy(op, r, from_pt, to_pt) ==
    /\ ncalls = 0
    /\ ncalls' = 1
    /\ save0' = save
    /\ save' = r.save
    /\ call' = IF r.ok THEN Returned(op, from_pt, to_pt, 0)
               ELSE Threw(op, from_pt, to_pt, r.err, 0)
    /\ UNCHANGED <<items, items0, pbContainers, cipherVars, strVars, envVars>>

CopyMissionPt ==
    \E from_pt, to_pt \in PtArgs :
        CallCopy("copy_mission_pt",
                 copy_mission_pt(save, from_pt, to_pt, pbContainers), from_pt, to_pt)

CopyActiveFtStationsPt ==
    \E from_pt, to_pt \in PtArgs :
        CallCopy("copy_active_ft_stations_pt",
                 copy_active_ft_stations_pt(save, from_pt, to_pt, pbContainers),
                 from_pt, to_pt)

CopyLastStationPt ==
    \E from_pt, to_pt \in PtArgs :
        CallCopy("copy_last_station_pt",
                 copy_last_station_pt(save, from_pt, to_pt, pbContainers),
                 from_pt, to_pt)

CopyGameStatePt ==
    \E from_pt, to_pt \in PtArgs :
        CallCopy("copy_game_state_pt",
                 copy_game_state_pt(save, from_pt, to_pt, pbContainers),
                 from_pt, to_pt)

CopyPlaythroughData ==
    \E from_pt, to_pt \in PtArgs :
        LET r == copy_playthrough_data(save, from_pt, to_pt, pbContainers)
        IN  /\ ncalls = 0
            /\ ncalls' = 1
            /\ save0' = save
            /\ save' = r.save
            /\ call' = IF r.ok THEN Returned("copy_playthrough_data", from_pt, to_pt, 0)
                       ELSE Threw("copy_playthrough_data", from_pt, to_pt, r.err, r.failed)
            /\ UNCHANGED <<items, items0, pbContainers, cipherVars, strVars, envVars>>

PtNext ==
    \/ CopyMissionPt
    \/ CopyActiveFtStationsPt
    \/ CopyLastStationPt
    \/ CopyGameStatePt
    \/ CopyPlaythroughData

SpecPt == PtInit /\ [][PtNext]_vars

\* the collection a single-collection copy works on
PtField(op) ==
    IF op = "copy_mission_pt" THEN "mission_playthroughs_data"
    ELSE IF op = "copy_active_ft_stations_pt" THEN "active_travel_stations_for_playthrough"
    ELSE IF op = "copy_last_station_pt" THEN "last_active_travel_station_for_playthrough"
    ELSE "game_state_save_data_for_playthrough"

SingleCopies ==
    { "copy_mission_pt", "copy_active_ft_stations_pt",
      "copy_last_station_pt", "copy_game_state_pt" }

\* C4: a single-collection copy is rejected whenever from_pt is not an
\* existing index, to_pt is greater than the length, from_pt = to_pt or an
\* index is negative; a rejected copy leaves the whole record as it was.
C4_CopyRejected ==
    call.op \in SingleCopies =>
        LET N == Len(save0[PtField(call.op)])
            from_pt == call.a
            to_pt == call.b
        IN  /\ (\/ from_pt \notin 0..(N - 1)
                \/ to_pt > N
                \/ from_pt = to_pt
                \/ from_pt < 0
                \/ to_pt < 0) => ~call.ok
            /\ ~call.ok => save = save0

\* a copy onto itself, with both indexes existing, was rejected
C4_Witness ==
    /\ call.op = "copy_game_state_pt"
    /\ call.a = 1 /\ call.b = 1
    /\ Len(save0.game_state_save_data_for_playthrough) = 2
    /\ ~call.ok
    /\ save = save0

C5_WitnessOverwrite ==
    /\ call.op = "copy_last_station_pt" /\ call.ok
    /\ call.a = 1 /\ call.b = 0
    /\ save0.last_active_travel_station_for_playthrough = << 1, 2 >>
    /\ save.last_active_travel_station_for_playthrough = << 2, 2 >>

PtFields ==
    << "mission_playthroughs_data", "active_travel_stations_for_playthrough",
       "last_active_travel_station_for_playthrough",
       "game_state_save_data_for_playthrough" >>

\* whether the container of the k-th collection takes item assignment
PtAssignable(k) == k = 3 \/ ~pbContainers

\* the k-th sub-copy, were it made alone on the record before the call
SubCopy(k) == CopyPt(save0[PtFields[k]], call.a, call.b, PtAssignable(k))

\* C6: copy_playthrough_data makes the sub-copies in the order missions,
\* fast-travel, last-station, game-state; it raises the error of the first
\* sub-copy that is rejected, keeps the sub-copies before it applied and does
\* not touch the collections from it onward.
C6_CompositeNotTransactional ==
    call.op = "copy_playthrough_data" =>
        LET rejected == { k \in 1..4 : ~SubCopy(k).ok }
            first == IF rejected = {} THEN 0
                     ELSE CHOOSE k \in rejected : \A j \in rejected : k <= j
        IN  /\ call.failed = first
            /\ call.ok <=> first = 0
            /\ first # 0 => call.err = SubCopy(first).err
            /\ \A k \in 1..4 :
                  save[PtFields[k]] =
                      IF first = 0 \/ k < first THEN SubCopy(k).coll
                      ELSE save0[PtFields[k]]
            /\ \A f \in DOMAIN save :
                  (\A k \in 1..4 : f # PtFields[k]) => save[f] = save0[f]

\* the third sub-copy was rejected after the first two had been applied
C6_Witness ==
    /\ call.op = "copy_playthrough_data"
    /\ call.failed = 3
    /\ save.mission_playthroughs_data # save0.mission_playthroughs_data
    /\ save.active_travel_stations_for_playthrough
          # save0.active_travel_stations_for_playthrough
    /\ save.last_active_travel_station_for_playthrough
          = save0.last_active_travel_station_for_playthrough
    /\ save.game_state_save_data_for_playthrough
          = save0.game_state_save_data_for_playthrough

----------------------------------------------------------------------------
(* Composite runs: a record whose four collections have the same length,   *)
(* at least 1, then calls of copy_playthrough_data one after the other.    *)

MaxSeqCalls == 3

\* from_pt and to_pt: every index the collections can come to have, one
\* below and above
SeqArgs == (-1)..(MaxPt + MaxSeqCalls + 1)

\* the collection `field` of a record of n playthroughs: the four
\* collections of a record hold different things
PtCollOf(field, n) == [k \in 1..n |-> << field, k >>]

PtSeqInit ==
    /\ \E n \in 1..MaxPt :
          save = [EmptySave EXCEPT
                    !.mission_playthroughs_data = PtCollOf("mission", n),
                    !.active_travel_stations_for_playthrough = PtCollOf("ft", n),
                    !.last_active_travel_station_for_playthrough = PtCollOf("station", n),
                    !.game_state_save_data_for_playthrough = PtCollOf("state", n)]
    /\ save0 = save
    /\ items = <<>>
    /\ items0 = <<>>
    /\ call = NoCall
    /\ ncalls = 0
    /\ pbContainers \in BOOLEAN
    /\ CipherIdle
    /\ StrIdle
    /\ EnvIdle

CopyPlaythroughDataSeq ==
    \E from_pt, to_pt \in SeqArgs :
        LET r == copy_playthrough_data(save, from_pt, to_pt, pbContainers)
        IN  /\ ncalls < MaxSeqCalls
            /\ ncalls' = ncalls + 1
            /\ save0' = save
            /\ save' = r.save
            /\ call' = IF r.ok THEN Returned("copy_playthrough_data", from_pt, to_pt, 0)
                       ELSE Threw("copy_playthrough_data", from_pt, to_pt, r.err, r.failed)
            /\ UNCHANGED <<items, items0, pbContainers, cipherVars, strVars, envVars>>

PtSeqNext == CopyPlaythroughDataSeq

SpecPtSeq == PtSeqInit /\ [][PtSeqNext]_vars

PtFieldNames ==
    { "mission_playthroughs_data", "active_travel_stations_for_playthrough",
      "last_active_travel_station_for_playthrough",
      "game_state_save_data_for_playthrough" }

\* what a copy from from_pt to to_pt makes of the collection coll
Copied(coll, from_pt, to_pt) ==
    IF to_pt = Len(coll) THEN Append(coll, coll[from_pt + 1])
    ELSE [coll EXCEPT ![to_pt + 1] = coll[from_pt + 1]]

\* C18: from four collections of the same length N >= 1, every sequence of
\* copy_playthrough_data calls keeps the four lengths equal; a call adds at
\* most one to that length and never takes from it; and a call either
\* updates all four collections or is rejected and changes none.
C18_CompositeKeepsLengths ==
    /\ \A f, g \in PtFieldNames : Len(save[f]) = Len(save[g])
    /\ \A f \in PtFieldNames :
          /\ Len(save[f]) >= 1
          /\ Len(save[f]) \in { Len(save0[f]), Len(save0[f]) + 1 }
    /\ (call.op = "copy_playthrough_data" /\ call.ok) =>
          \A f \in PtFieldNames : save[f] = Copied(save0[f], call.a, call.b)
    /\ (call.op = "copy_playthrough_data" /\ ~call.ok) =>
          /\ save = save0
          /\ call.failed = 1

\* playthrough 0 has been copied to a new playthrough twice over: the
\* four collections have grown by two together
C18_Witness ==
    /\ ncalls = 2
    /\ call.op = "copy_playthrough_data" /\ call.ok
    /\ call.a = 0
    /\ \A f \in PtFieldNames :
          /\ Len(save[f]) = Len(save0[f]) + 1
          /\ Len(save[f]) >= 3
          /\ save[f][Len(save[f])] = save[f][1]

\* after a copy that grew the collections, a copy onto an existing
\* playthrough was made: applied to all four with list containers
C18_WitnessOverwrite ==
    /\ ncalls = 2
    /\ ~pbContainers
    /\ call.op = "copy_playthrough_data" /\ call.ok
    /\ call.a = 1 /\ call.b = 0
    /\ \A f \in PtFieldNames :
          /\ Len(save[f]) = Len(save0[f])
          /\ save[f] # save0[f]

\* the same copy with protobuf containers: refused by the first sub-copy
C18_WitnessRefused ==
    /\ ncalls = 2
    /\ pbContainers
    /\ call.op = "copy_playthrough_data" /\ ~call.ok
    /\ call.err = "TypeError"
    /\ call.a = 1 /\ call.b = 0
    /\ save = save0

----------------------------------------------------------------------------
(* Item runs: a loaded record with some items and slot assignments, then   *)
(* up to MaxCalls calls of add_new_item and overwrite_item_in_slot.        *)

MaxInitItems == 2
MaxCalls == 2

\* the serial numbers handed to the calls; none is a serial of InitItem
NewSerials == { 100, 200 }

\* the k-th item of a loaded record: the pickup order indexes do not grow
\* with the position (5, 3, 1, 6, ...), the flags vary
InitItem(k) == ItemPb(k, (5 * k) % 7, IF k % 2 = 1 THEN 1 ELSE 5, "")

InitInventory(n) == [k \in 1..n |-> InitItem(k)]

\* slot assignments over n items: at most one entry per slot, each with the
\* index of an item or -1 for none
EquipEntries(n) ==
    { EquipPb(idx, p) : idx \in (-1)..(n - 1), p \in SlotObjs }

EquipLists(n) ==
    { q \in SeqsUpTo(EquipEntries(n), Cardinality(Slots)) :
        \A i, j \in 1..Len(q) : i # j => q[i].slot_data_path # q[j].slot_data_path }

ItemInit ==
    /\ \E n \in 0..MaxInitItems : \E q \in EquipLists(n) :
          save = [EmptySave EXCEPT !.inventory_items = InitInventory(n),
                                   !.equipped_inventory_list = q]
    /\ save0 = save
    /\ items = WrapItems(save)
    /\ items0 = items
    /\ call = NoCall
    /\ ncalls = 0
    /\ pbContainers \in BOOLEAN
    /\ CipherIdle
    /\ StrIdle
    /\ EnvIdle

AddNewItem ==
    /\ ncalls < MaxCalls
    /\ \E itemdata \in NewSerials :
          LET r == add_new_item(save, items, itemdata, pbContainers)
          IN  /\ save' = r.save
              /\ items' = r.items
              /\ call' = Returned("add_new_item", "", itemdata, r.new_index)
    /\ save0' = save
    /\ items0' = items
    /\ ncalls' = ncalls + 1
    /\ UNCHANGED <<pbContainers, cipherVars, strVars, envVars>>

OverwriteItemInSlot ==
    /\ ncalls < MaxCalls
    /\ \E slot \in Slots, itemdata \in NewSerials :
          LET r == overwrite_item_in_slot(save, items, slot, itemdata, pbContainers)
          IN  /\ save' = r.save
              /\ items' = r.items
              /\ call' = IF r.ok THEN Returned("overwrite_item_in_slot", slot, itemdata, 0)
                         ELSE Threw("overwrite_item_in_slot", slot, itemdata, r.err, 0)
    /\ save0' = save
    /\ items0' = items
    /\ ncalls' = ncalls + 1
    /\ UNCHANGED <<pbContainers, cipherVars, strVars, envVars>>

ItemNext == AddNewItem \/ OverwriteItemInSlot

SpecItem == ItemInit /\ [][ItemNext]_vars

\* the entries of the slot-assignment list eq that are for `slot`
SlotEntries(eq, slot) ==
    { k \in 1..Len(eq) : eq[k].slot_data_path = slot_to_slotobj[slot] }

\* the slot is empty: no entry for it, or one entry whose index is none
SlotEmpty(eq, slot) ==
    \A k \in SlotEntries(eq, slot) : eq[k].inventory_list_index < 0

\* the largest pickup order index in the inventory inv, 0 when it is empty
MaxOrder(inv) ==
    IF inv = <<>> THEN 0
    ELSE LET O == { inv[k].pickup_order_index : k \in 1..Len(inv) } \cup {0}
         IN  CHOOSE m \in O : \A o \in O : o <= m

\* C7: overwriting an empty slot with serial X appends exactly one item,
\* with serial X, flags seen+favorite and order index max existing + 1; the
\* slot's entry is updated if there is one and appended otherwise; and the
\* slot then resolves to an item whose serial is X.
C7_OverwriteEmptySlot ==
    (call.op = "overwrite_item_in_slot"
        /\ SlotEmpty(save0.equipped_inventory_list, call.a)) =>
        LET inv0 == save0.inventory_items
            inv == save.inventory_items
            eq0 == save0.equipped_inventory_list
            eq == save.equipped_inventory_list
            had == SlotEntries(eq0, call.a)
            now == SlotEntries(eq, call.a)
        IN  /\ call.ok
            /\ Len(inv) = Len(inv0) + 1
            /\ SubSeq(inv, 1, Len(inv0)) = inv0
            /\ inv[Len(inv)] = ItemPb(call.b, MaxOrder(inv0) + 1, 3, "")
            /\ \A k \in 1..Len(inv0) :
                  inv[Len(inv)].pickup_order_index > inv0[k].pickup_order_index
            /\ had # {} =>
                  /\ Len(eq) = Len(eq0)
                  /\ \A k \in 1..Len(eq0) :
                        eq[k] = IF k \in had
                                THEN [eq0[k] EXCEPT !.inventory_list_index = Len(inv0)]
                                ELSE eq0[k]
            /\ had = {} =>
                  eq = Append(eq0, EquipPb(Len(inv0), slot_to_slotobj[call.a]))
            /\ Cardinality(now) = 1
            /\ \A k \in now :
                  /\ eq[k].inventory_list_index = Len(items) - 1
                  /\ Protobuf(save, items[Len(items)]).item_serial_number = call.b
            /\ Len(items) = Len(items0) + 1

\* an empty slot that had an entry with index none was overwritten in a
\* record whose largest order index is not that of the last item
C7_Witness ==
    /\ call.op = "overwrite_item_in_slot" /\ call.ok
    /\ call.a = "shield" /\ call.b = 100
    /\ ncalls = 1
    /\ save0.inventory_items = InitInventory(2)
    /\ save0.equipped_inventory_list = << EquipPb(-1, slot_to_slotobj["shield"]) >>
    /\ save.equipped_inventory_list = << EquipPb(2, slot_to_slotobj["shield"]) >>
    /\ save.inventory_items[3] = ItemPb(100, 6, 3, "")

\* an empty slot with no entry at all was overwritten
C7_WitnessNoEntry ==
    /\ call.op = "overwrite_item_in_slot" /\ call.ok
    /\ call.a = "weapon1"
    /\ SlotEntries(save0.equipped_inventory_list, "weapon1") = {}
    /\ Len(save.equipped_inventory_list) = Len(save0.equipped_inventory_list) + 1

\* C8: overwriting an occupied slot with serial Y replaces the serial of the
\* item assigned to the slot and changes nothing else: the inventory length,
\* the slot assignments, the item's flags and order index, and every other
\* item stay as they were.
C8_OverwriteOccupiedSlot ==
    (call.op = "overwrite_item_in_slot"
        /\ ~SlotEmpty(save0.equipped_inventory_list, call.a)) =>
        LET eq0 == save0.equipped_inventory_list
            pos == eq0[CHOOSE k \in SlotEntries(eq0, call.a) : TRUE].inventory_list_index + 1
        IN  /\ call.ok
            /\ Len(save.inventory_items) = Len(save0.inventory_items)
            /\ Len(items) = Len(items0)
            /\ save.equipped_inventory_list = eq0
            /\ \A k \in 1..Len(items) :
                  Protobuf(save, items[k]) =
                      IF k = pos
                      THEN [Protobuf(save0, items0[k]) EXCEPT !.item_serial_number = call.b]
                      ELSE Protobuf(save0, items0[k])
            /\ \A k \in 1..Len(save.inventory_items) :
                  /\ save.inventory_items[k].flags = save0.inventory_items[k].flags
                  /\ save.inventory_items[k].pickup_order_index
                        = save0.inventory_items[k].pickup_order_index
                  /\ k # pos => save.inventory_items[k] = save0.inventory_items[k]
            /\ \A f \in DOMAIN save : f # "inventory_items" => save[f] = save0[f]

\* the occupied slot "weapon1" of a loaded record was overwritten with 200
C8_Witness ==
    /\ call.op = "overwrite_item_in_slot" /\ call.ok
    /\ call.a = "weapon1" /\ call.b = 200
    /\ ncalls = 1
    /\ save0.inventory_items = InitInventory(2)
    /\ save0.equipped_inventory_list = << EquipPb(1, slot_to_slotobj["weapon1"]) >>
    /\ save.inventory_items = << InitItem(1), ItemPb(200, 3, 5, "") >>
    /\ save.equipped_inventory_list = save0.equipped_inventory_list

\* C17: after any sequence of add_new_item and overwrite_item_in_slot
\* calls, self.items and the record's inventory have the same length and
\* items[i] is a view of inventory entry i; so the serial a second overwrite
\* of a slot writes through the item is the serial of that entry in the
\* record save_to serializes.
C17_ItemsAreViews ==
    /\ Len(items) = Len(save.inventory_items)
    /\ \A i \in 1..Len(items) : items[i] = View(i)
    /\ (call.op = "overwrite_item_in_slot" /\ call.ok
            /\ ~SlotEmpty(save0.equipped_inventory_list, call.a)) =>
          LET eq0 == save0.equipped_inventory_list
              pos == eq0[CHOOSE k \in SlotEntries(eq0, call.a) : TRUE].inventory_list_index + 1
          IN  save.inventory_items[pos].item_serial_number = call.b

\* what the two methods do: the lengths stay equal; with list containers
\* every item is a view of its entry; with protobuf containers the items the
\* record was loaded with are views, and an item made by add_new_item holds
\* the message that was copied into the record, not the record's entry
ItemViewsOutcome ==
    /\ Len(items) = Len(save.inventory_items)
    /\ ~pbContainers => \A i \in 1..Len(items) : items[i] = View(i)
    /\ pbContainers =>
          \A i \in 1..Len(items) :
             \/ items[i] = View(i)
             \/ /\ items[i].ref = 0
                /\ items[i].pb.flags = 3
                /\ save.inventory_items[i].flags = 3

\* with protobuf containers, a slot filled by a first overwrite has been
\* overwritten again: the item has the second serial, the record the first
ItemViewsWitness ==
    /\ pbContainers
    /\ ncalls = 2
    /\ call.op = "overwrite_item_in_slot" /\ call.ok
    /\ call.a = "shield" /\ call.b = 200
    /\ Len(items) = Len(items0)
    /\ items[Len(items)].ref = 0
    /\ items[Len(items)].pb.item_serial_number = 200
    /\ save.inventory_items[Len(items)].item_serial_number = 100
    /\ save = save0

----------------------------------------------------------------------------
(* Catalog runs: a record whose category lists hold any entries, among     *)
(* them entries with a path the Catalog does not know, then one call.      *)

MaxEntries == 2

\* an entry is of the first or the second Catalog category, or of none
EntryKinds == { 1, 2, 3 }

Pick(kind, a, b, c) == IF kind = 1 THEN a ELSE IF kind = 2 THEN b ELSE c

CurrencyEntry(kind) ==
    [ base_category_definition_hash |-> Pick(kind, 11, 22, 99), quantity |-> 5 * kind ]

SduEntry(kind) ==
    [ sdu_data_path |-> Pick(kind, "SDU_Backpack", "SDU_SniperRifle", "SDU_Unknown"),
      sdu_level |-> kind ]

\* amounts with a fraction: 3.5, 4.5, 5.5
PoolEntry(kind) ==
    [ resource_path |-> Pick(kind, "Resource_Ammo_Pistol", "Resource_Ammo_Grenade",
                             "Resource_Unknown"),
      amount |-> FloatOf(2 + kind) + 5 ]

ChallengeEntry(kind) ==
    [ challenge_class_path |-> Pick(kind, "Challenge_Artifact", "Challenge_PetSlot",
                                    "Challenge_Other"),
      currently_completed |-> TRUE ]

NicknameEntry(kind) ==
    [ key |-> Pick(kind, [base |-> "skag", upper |-> TRUE],
                   [base |-> "spiderant", upper |-> FALSE],
                   [base |-> "other", upper |-> FALSE]),
      value |-> Pick(kind, "Rex", "Webster", "Nobody") ]

ClassPaths ==
    { "PlayerClassId_Beastmaster", "PlayerClassId_Gunner", "PlayerClassId_Unknown" }

\* the record whose five category lists follow the sequence of kinds q
CatalogRecord(q, class_path) ==
    [EmptySave EXCEPT
        !.inventory_category_list = [k \in 1..Len(q) |-> CurrencyEntry(q[k])],
        !.sdu_list = [k \in 1..Len(q) |-> SduEntry(q[k])],
        !.resource_pools = [k \in 1..Len(q) |-> PoolEntry(q[k])],
        !.challenge_data = [k \in 1..Len(q) |-> ChallengeEntry(q[k])],
        !.nickname_mappings = [k \in 1..Len(q) |-> NicknameEntry(q[k])],
        !.player_class_path = class_path]

CatInit ==
    /\ \E q \in SeqsUpTo(EntryKinds, MaxEntries), class_path \in ClassPaths :
          save = CatalogRecord(q, class_path)
    /\ save0 = save
    /\ items = <<>>
    /\ items0 = <<>>
    /\ call = NoCall
    /\ ncalls = 0
    /\ pbContainers = FALSE
    /\ CipherIdle
    /\ StrIdle
    /\ EnvIdle

\* a call that only reads the record
CallGet(op, key, r) ==
    /\ ncalls = 0
    /\ ncalls' = 1
    /\ call' = IF r.ok THEN Returned(op, key, 0, r.ret) ELSE Threw(op, key, 0, r.err, 0)
    /\ UNCHANGED <<save, save0, items, items0, pbContainers, cipherVars, strVars, envVars>>

\* a call that changes the record
CallSet(op, ok, err, s) ==
    /\ ncalls = 0
    /\ ncalls' = 1
    /\ save0' = save
    /\ save' = s
    /\ call' = IF ok THEN Returned(op, 0, 0, 0) ELSE Threw(op, 0, 0, err, 0)
    /\ UNCHANGED <<items, items0, pbContainers, cipherVars, strVars, envVars>>

\* the orders in which a set of all the SDU categories can be iterated
SduOrders ==
    { q \in [1..Cardinality(DOMAIN sdu_to_eng) -> DOMAIN sdu_to_eng] :
        \A i, j \in DOMAIN q : i # j => q[i] # q[j] }

SetMaxSdus ==
    \E order \in SduOrders :
        LET r == set_max_sdus(save, order)
        IN  CallSet("set_max_sdus", r.ok, r.err, r.save)

SetMaxAmmo == CallSet("set_max_ammo", TRUE, "", set_max_ammo(save))

GetCurrency ==
    \E currency_type \in { "MONEY", "ERIDIUM", "DIAMOND_KEY" } :
        CallGet("get_currency", currency_type, get_currency(save, currency_type))

GetSdu ==
    \E sdu \in DOMAIN sdu_to_eng \cup { "ARTIFACT_SDU" } :
        CallGet("get_sdu", sdu, get_sdu(save, sdu))

GetAmmoCount ==
    \E ammo \in DOMAIN ammo_to_max \cup { "ROCKET" } :
        CallGet("get_ammo_count", ammo, get_ammo_count(save, ammo))

GetInterestingChallenge ==
    \E chal_type \in { "ARTIFACT", "BEASTMASTER_COM", "SANCTUARY" } :
        CallGet("get_interesting_challenge", chal_type,
                get_interesting_challenge(save, chal_type))

GetPetName ==
    \E pet_type \in { "SKAG", "SPIDERANT", "JABBER" } :
        CallGet("get_pet_name", pet_type, get_pet_name(save, pet_type))

CatNext ==
    \/ SetMaxSdus
    \/ SetMaxAmmo
    \/ GetCurrency
    \/ GetSdu
    \/ GetAmmoCount
    \/ GetInterestingChallenge
    \/ GetPetName

SpecCat == CatInit /\ [][CatNext]_vars

\* every SDU category has an entry in the list, at the category's ceiling
SdusComplete(list) ==
    \A sdu \in DOMAIN sdu_to_eng :
        \E k \in 1..Len(list) :
            /\ list[k].sdu_data_path = sdu_to_sduobj[sdu]
            /\ list[k].sdu_level = sdu_to_max[sdu]

\* every ammo category has a pool in the list, at the category's ceiling
AmmoComplete(list) ==
    \A ammo \in DOMAIN ammo_to_max :
        \E k \in 1..Len(list) :
            /\ list[k].resource_path \in DOMAIN ammoobj_to_ammo
            /\ ammoobj_to_ammo[list[k].resource_path] = ammo
            /\ list[k].amount = FloatOf(ammo_to_max[ammo])

\* C9 as claimed: after set_max_sdus, and likewise after set_max_ammo, every
\* Catalog category has an entry whose value is the Catalog ceiling.
C9_SetMaxCovers ==
    /\ (call.op = "set_max_sdus" /\ call.ok) => SdusComplete(save.sdu_list)
    /\ call.op = "set_max_ammo" => AmmoComplete(save.resource_pools)

\* C9 (amended): after a set_max_sdus that returns, every SDU category has
\* an entry at its ceiling, also when it had none before; set_max_ammo sets
\* the pools the record already has whose path the Catalog knows to their
\* ceiling and adds no pool, so a category without a pool still has none.
C9_SetMaxAmended ==
    /\ (call.op = "set_max_sdus" /\ call.ok) =>
          /\ SdusComplete(save.sdu_list)
          /\ \A k \in 1..Len(save.sdu_list) :
                save.sdu_list[k].sdu_level
                    = sdu_to_max[sduobj_to_sdu[save.sdu_list[k].sdu_data_path]]
    /\ call.op = "set_max_ammo" =>
          LET pools0 == save0.resource_pools
              pools == save.resource_pools
          IN  /\ call.ok
              /\ Len(pools) = Len(pools0)
              /\ \A k \in 1..Len(pools) :
                    /\ pools[k].resource_path = pools0[k].resource_path
                    /\ pools[k].amount =
                          IF pools[k].resource_path \in DOMAIN ammoobj_to_ammo
                          THEN FloatOf(ammo_to_max[ammoobj_to_ammo[pools[k].resource_path]])
                          ELSE pools0[k].amount

\* set_max_ammo on a record with a pistol pool and no grenade pool: the
\* pistol pool is at its ceiling and there is still no grenade pool
C9_Witness ==
    /\ call.op = "set_max_ammo"
    /\ save0.resource_pools = << PoolEntry(1) >>
    /\ save.resource_pools =
          << [resource_path |-> "Resource_Ammo_Pistol", amount |-> FloatOf(1000)] >>
    /\ ~AmmoComplete(save.resource_pools)

\* set_max_sdus on a record with no SDU entry appended both categories
C9_WitnessSdus ==
    /\ call.op = "set_max_sdus" /\ call.ok
    /\ save0.sdu_list = <<>>
    /\ Len(save.sdu_list) = 2
    /\ SdusComplete(save.sdu_list)

\* the record has an entry that matches the key a get-accessor was asked for
HasMatch(s, op, key) ==
    IF op = "get_currency" THEN
        \E k \in 1..Len(s.inventory_category_list) :
            LET h == s.inventory_category_list[k].base_category_definition_hash
            IN  h \in DOMAIN curhash_to_currency /\ curhash_to_currency[h] = key
    ELSE IF op = "get_sdu" THEN
        \E k \in 1..Len(s.sdu_list) :
            LET p == s.sdu_list[k].sdu_data_path
            IN  p \in DOMAIN sduobj_to_sdu /\ sduobj_to_sdu[p] = key
    ELSE IF op = "get_ammo_count" THEN
        \E k \in 1..Len(s.resource_pools) :
            LET p == s.resource_pools[k].resource_path
            IN  p \in DOMAIN ammoobj_to_ammo /\ ammoobj_to_ammo[p] = key
    ELSE IF op = "get_interesting_challenge" THEN
        \E k \in 1..Len(s.challenge_data) :
            LET p == s.challenge_data[k].challenge_class_path
            IN  p \in DOMAIN challengeobj_to_challenge /\ challengeobj_to_challenge[p] = key
    ELSE
        \E k \in 1..Len(s.nickname_mappings) :
            LET p == Lower(s.nickname_mappings[k].key)
            IN  p \in DOMAIN petkey_to_pet /\ petkey_to_pet[p] = key

GetAccessors ==
    { "get_currency", "get_sdu", "get_ammo_count",
      "get_interesting_challenge", "get_pet_name" }

\* C10: a get-accessor asked for a key with no matching entry never raises,
\* whatever paths the record's entries carry: get_currency, get_sdu and
\* get_ammo_count return 0, get_interesting_challenge and get_pet_name None.
C10_GetDefaults ==
    (call.op \in GetAccessors /\ ~HasMatch(save, call.op, call.a)) =>
        /\ call.ok
        /\ call.op \in { "get_currency", "get_sdu", "get_ammo_count" } => call.ret = 0
        /\ call.op \in { "get_interesting_challenge", "get_pet_name" } => call.ret = PyNone

----------------------------------------------------------------------------
(* Load runs: the constructor is given a file that is what save_to wrote,  *)
(* or that file with its magic tag altered, with bytes added after the     *)
(* blob, or cut off inside one of its length-prefixed regions.             *)

\* the bytes save_to writes before the build id
HeadPart(e) ==
    GVAS
    \o _write_int(e.sg_version) \o _write_int(e.pkg_version)
    \o _write_short(e.engine_major) \o _write_short(e.engine_minor)
    \o _write_short(e.engine_patch) \o _write_int(e.engine_build)

\* the bytes save_to writes between the build id and the custom format data
FmtHeadPart(e) ==
    _write_int(e.fmt_version) \o _write_int(Len(e.custom_format_data))

\* the length field of a written string, and the bytes that follow it
StrLenField(value) == SubSeq(_write_str(value), 1, 4)
StrData(value) == SubSeq(_write_str(value), 5, Len(_write_str(value)))

\* the first n bytes of b
Keep(b, n) == SubSeq(b, 1, n)

\* b with the byte at Python index i changed
Alter(b, i) == [b EXCEPT ![i + 1] = (@ + 1) % 256]

\* the file of envelope e and payload p with fault ft
FaultyFile(e, p, ft) ==
    LET whole == save_to(e, p)
        upToBuildId == HeadPart(e) \o StrLenField(e.build_id)
        upToFmt == HeadPart(e) \o _write_str(e.build_id) \o FmtHeadPart(e)
        upToSgType == upToFmt \o WriteCustomFormat(e.custom_format_data)
                        \o StrLenField(e.sg_type)
        upToBlob == upToFmt \o WriteCustomFormat(e.custom_format_data)
                        \o _write_str(e.sg_type) \o _write_int(Len(p))
    IN  CASE ft.kind = "none" -> whole
          [] ft.kind = "magic" ->
                IF ft.n = 4 THEN Keep(whole, 3) ELSE Alter(whole, ft.n)
          [] ft.kind = "trailing" -> whole \o [k \in 1..ft.n |-> 0]
          [] ft.kind = "cut_build_id" ->
                upToBuildId \o Keep(StrData(e.build_id), ft.n)
          [] ft.kind = "cut_fmt" ->
                upToFmt \o Keep(WriteCustomFormat(e.custom_format_data), ft.n)
          [] ft.kind = "cut_sg_type" ->
                upToSgType \o Keep(StrData(e.sg_type), ft.n)
          [] ft.kind = "cut_blob" -> upToBlob \o Keep(Encrypt(p), ft.n)

\* the faults that apply to the file of envelope e and payload p: a cut
\* keeps fewer bytes of the region than its length prefix declares
FaultsFor(e, p) ==
    { NoFault }
    \cup { [kind |-> "magic", n |-> n] : n \in 0..4 }
    \cup { [kind |-> "trailing", n |-> n] : n \in {1, 2} }
    \cup { [kind |-> "cut_build_id", n |-> n] :
                n \in 0..(Len(StrData(e.build_id)) - 1) }
    \cup { [kind |-> "cut_fmt", n |-> n] :
                n \in {0, 10, 16, 19, 20, 36, 39}
                        \cap 0..(20 * Len(e.custom_format_data) - 1) }
    \cup { [kind |-> "cut_sg_type", n |-> n] :
                n \in 0..(Len(StrData(e.sg_type)) - 1) }
    \cup { [kind |-> "cut_blob", n |-> n] :
                n \in {0, 2, KeyLen} \cap 0..(Len(p) - 1) }

LoadEnvelopes ==
    [ sg_version : {2},
      pkg_version : {517},
      engine_major : {4},
      engine_minor : {20},
      engine_patch : {3},
      engine_build : {16909060},
      build_id : { PyNone, PyStr(<<>>), PyStr(<< 104, 233 >>) },
      fmt_version : {3},
      custom_format_data : SeqsUpTo(FmtEntries, MaxFmtCount),
      sg_type : { PyStr(<<>>), PyStr(<< 104 >>), PyStr(<< 8364, 104 >>) } ]

LoadInit ==
    /\ env \in LoadEnvelopes
    /\ payload \in PayloadInputs
    /\ fault \in FaultsFor(env, payload)
    /\ efile = FaultyFile(env, payload, fault)
    /\ eload = LoadRaised("")
    /\ ephase = "saved"
    /\ dfState = "unopened"
    /\ CipherIdle
    /\ StrIdle
    /\ ApiIdle

LoadNext == Load

SpecLoad == LoadInit /\ [][LoadNext]_vars

\* the faults that make a declared length-prefixed region run past the end
Cuts == {"cut_build_id", "cut_fmt", "cut_sg_type", "cut_blob"}

\* C11: the load fails whenever a length-prefixed region (the blob, a
\* string, the custom format entries) is declared longer than the bytes
\* that remain, and a load that succeeds had a blob length field equal to
\* the number of bytes that followed it.
C11_LoadOverrunFails ==
    ephase = "loaded" =>
        /\ fault.kind \in Cuts => ~eload.ok
        /\ (fault.kind \in {"none", "trailing", "cut_blob"} /\ eload.ok)
                => fault.kind = "none"

\* what the constructor does do about overruns: a cut inside a string or
\* inside the custom format entries fails, in a later fixed-width read or in
\* the decoding of the string; a cut inside the blob loads, with the bytes
\* that are there taken as the whole blob
LoadOverrunOutcome ==
    ephase = "loaded" =>
        /\ fault.kind \in Cuts \ {"cut_blob"} =>
                /\ ~eload.ok
                /\ eload.err \in {"struct.error", "UnicodeDecodeError"}
        /\ fault.kind = "cut_blob" =>
                /\ eload.ok
                /\ eload.env = env
                /\ eload.data = Keep(payload, fault.n)

\* a file whose blob was cut after KeyLen of its bytes has been loaded
LoadOverrunWitness ==
    /\ ephase = "loaded"
    /\ fault = [kind |-> "cut_blob", n |-> KeyLen]
    /\ Len(payload) > KeyLen
    /\ eload.ok

\* C12: a file whose first four bytes are not the magic tag, and a file
\* with bytes after the declared blob, make the constructor raise: the
\* caller gets no object, none of the fields read so far, and the file
\* object is closed.
C12_LoadRejects ==
    ephase = "loaded" =>
        /\ dfState = "closed"
        /\ fault.kind \in {"magic", "trailing"} =>
                /\ ~eload.ok
                /\ eload.err = "AssertionError"
                /\ eload.env = NoEnvelope
                /\ eload.data = <<>>

\* a file with two bytes after a blob longer than the key tables, and with
\* two custom format entries, has been refused
C12_Witness ==
    /\ ephase = "loaded"
    /\ fault = [kind |-> "trailing", n |-> 2]
    /\ Len(payload) > KeyLen
    /\ Len(env.custom_format_data) = 2
    /\ Len(efile) = Len(save_to(env, payload)) + 2
    /\ ~eload.ok
    /\ dfState = "closed"

\* a file whose magic tag has a wrong last byte has been refused
C12_WitnessMagic ==
    /\ ephase = "loaded"
    /\ fault = [kind |-> "magic", n |-> 3]
    /\ Keep(efile, 3) = Keep(GVAS, 3)
    /\ ~eload.ok
    /\ dfState = "closed"

----------------------------------------------------------------------------
(* Create runs: one call of BL3Item.create, on arguments from small sets.  *)

MaxPickupIdx == 3

SkinPaths == {"", "/Game/Skin_A"}

\* bit k of a non-negative integer
Bit(v, k) == (v \div (2 ^ k)) % 2

BoolBit(b) == IF b THEN 1 ELSE 0

CreateInit ==
    /\ ApiIdle
    /\ CipherIdle
    /\ StrIdle
    /\ EnvIdle

Create ==
    /\ ncalls = 0
    /\ \E serial_number \in NewSerials, pickup_order_idx \in 0..MaxPickupIdx,
          skin_path \in SkinPaths,
          is_seen \in BOOLEAN, is_favorite \in BOOLEAN, is_trash \in BOOLEAN :
            call' = Returned("create",
                        [ serial_number |-> serial_number,
                          pickup_order_idx |-> pickup_order_idx,
                          skin_path |-> skin_path ],
                        [ is_seen |-> is_seen, is_favorite |-> is_favorite,
                          is_trash |-> is_trash ],
                        BL3Item_create(serial_number, pickup_order_idx,
                                       skin_path, is_seen, is_favorite,
                                       is_trash))
    /\ ncalls' = 1
    /\ UNCHANGED <<save, save0, items, items0, pbContainers,
                   cipherVars, strVars, envVars>>

CreateNext == Create

SpecCreate == CreateInit /\ [][CreateNext]_vars

\* C13: for each of the eight combinations of (is_seen, is_favorite,
\* is_trash) the flags BL3Item.create produces have bit 0 = is_seen,
\* bit 1 = is_favorite, bit 2 = is_trash and not is_favorite, and no other
\* bit; bits 1 and 2 are never both set.
C13_CreateFlags ==
    call.op = "create" =>
        LET flags == call.ret.flags
        IN  /\ Bit(flags, 0) = BoolBit(call.b.is_seen)
            /\ Bit(flags, 1) = BoolBit(call.b.is_favorite)
            /\ Bit(flags, 2) = BoolBit(call.b.is_trash /\ ~call.b.is_favorite)
            /\ flags \in 0..7
            /\ ~(Bit(flags, 1) = 1 /\ Bit(flags, 2) = 1)
            /\ call.ret.item_serial_number = call.a.serial_number
            /\ call.ret.pickup_order_index = call.a.pickup_order_idx
            /\ call.ret.weapon_skin_path = call.a.skin_path

\* an item asked to be both favorite and trash has been created as a
\* favorite
C13_Witness ==
    /\ call.op = "create"
    /\ call.b = [is_seen |-> TRUE, is_favorite |-> TRUE, is_trash |-> TRUE]
    /\ call.ret.flags = 3

----------------------------------------------------------------------------
(* Character level: get_level and set_level                                *)
(*                                                                         *)
(* required_xp_list and max_level come from the package's constants, which *)
(* this file imports.  required_xp_list[i] is the XP at which level i + 1  *)
(* begins: the table rises strictly and has an entry for every level up to *)
(* max_level and beyond.  The table here is a short one of that shape; it  *)
(* has two neighbouring levels one XP apart.                               *)

max_level == 4
required_xp_list == << 0, 3, 4, 9, 17, 30 >>

\* the loop of get_level from entry k (counted from 1) on
RECURSIVE GetLevelFrom(_, _, _)
GetLevelFrom(xp, k, cur_lvl) ==
    IF k > Len(required_xp_list) THEN cur_lvl
    ELSE IF xp >= required_xp_list[k] THEN GetLevelFrom(xp, k + 1, cur_lvl + 1)
    ELSE cur_lvl

\* get_xp
get_xp(s) == s.experience_points

\* get_level
get_level(s) == GetLevelFrom(get_xp(s), 1, 0)

\* a faulty set_level that honours top_val at the maximum level too
SetLevelTopAtMax(s, level, top_val) ==
    IF level > Len(required_xp_list) THEN [ok |-> FALSE, err |-> "Exception", save |-> s]
    ELSE IF level > max_level THEN [ok |-> FALSE, err |-> "Exception", save |-> s]
    ELSE IF level < 1 THEN [ok |-> FALSE, err |-> "Exception", save |-> s]
    ELSE IF top_val THEN
        IF level + 1 > Len(required_xp_list)
        THEN [ok |-> FALSE, err |-> "IndexError", save |-> s]
        ELSE [ok |-> TRUE, err |-> "",
              save |-> [s EXCEPT !.experience_points = required_xp_list[level + 1] - 1]]
    ELSE [ok |-> TRUE, err |-> "",
          save |-> [s EXCEPT !.experience_points = required_xp_list[level]]]

\* set_level: [ok, err, save].  Python's required_xp_list[level] is entry
\* level + 1 here, required_xp_list[level-1] is entry level.
set_level(s, level, top_val) ==
    IF level > Len(required_xp_list) THEN [ok |-> FALSE, err |-> "Exception", save |-> s]
    ELSE IF level > max_level THEN [ok |-> FALSE, err |-> "Exception", save |-> s]
    ELSE IF level < 1 THEN [ok |-> FALSE, err |-> "Exception", save |-> s]
    ELSE
        LET top == IF level = max_level THEN FALSE ELSE top_val
        IN  IF top THEN
                IF level + 1 > Len(required_xp_list)
                THEN [ok |-> FALSE, err |-> "IndexError", save |-> s]
                ELSE [ok |-> TRUE, err |-> "",
                      save |-> [s EXCEPT !.experience_points =
                                            required_xp_list[level + 1] - 1]]
            ELSE [ok |-> TRUE, err |-> "",
                  save |-> [s EXCEPT !.experience_points = required_xp_list[level]]]

----------------------------------------------------------------------------
(* Level runs: a character with some XP, then calls of set_level and       *)
(* get_level.                                                              *)

MaxXp == 35
MaxLevelCalls == 2

\* the levels asked for: below 1, every level of the table, and above it
LevelArgs == (-1)..(Len(required_xp_list) + 1)

LevelInit ==
    /\ \E xp \in 0..MaxXp : save = [EmptySave EXCEPT !.experience_points = xp]
    /\ save0 = save
    /\ items = <<>>
    /\ items0 = <<>>
    /\ call = NoCall
    /\ ncalls = 0
    /\ pbContainers = FALSE
    /\ CipherIdle
    /\ StrIdle
    /\ EnvIdle

SetLevel ==
    /\ ncalls < MaxLevelCalls
    /\ \E level \in LevelArgs, top_val \in BOOLEAN :
          LET r == set_level(save, level, top_val)
          IN  /\ save' = r.save
              /\ call' = IF r.ok THEN Returned("set_level", level, top_val, 0)
                         ELSE Threw("set_level", level, top_val, r.err, 0)
    /\ save0' = save
    /\ ncalls' = ncalls + 1
    /\ UNCHANGED <<items, items0, pbContainers, cipherVars, strVars, envVars>>

GetLevel ==
    /\ ncalls < MaxLevelCalls
    /\ call' = Returned("get_level", 0, 0, get_level(save))
    /\ save0' = save
    /\ ncalls' = ncalls + 1
    /\ UNCHANGED <<save, items, items0, pbContainers,
                   cipherVars, strVars, envVars>>

LevelNext == SetLevel \/ GetLevel

SpecLevel == LevelInit /\ [][LevelNext]_vars

\* the level of a character with the given XP
LevelAt(xp) == get_level([EmptySave EXCEPT !.experience_points = xp])

\* C14: after set_level(L) with 1 <= L <= max_level, get_level() is L and
\* no smaller XP gives level L; after set_level(L, top_val=True) with
\* L < max_level, get_level() is L and one more XP gives L + 1;
\* set_level(max_level, top_val=True) leaves the XP set_level(max_level)
\* leaves; a level below 1 or above max_level raises and the XP is as before.
C14_SetGetLevel ==
    /\ call.op = "set_level" =>
          LET L == call.a
              xp == save.experience_points
          IN  /\ call.ok <=> L \in 1..max_level
              /\ ~call.ok => save = save0
              /\ call.ok => get_level(save) = L
              /\ (call.ok /\ (~call.b \/ L = max_level)) =>
                    /\ \A x \in 0..(xp - 1) : LevelAt(x) < L
                    /\ xp = set_level(save0, L, FALSE).save.experience_points
              /\ (call.ok /\ call.b /\ L < max_level) => LevelAt(xp + 1) = L + 1
    /\ call.op = "get_level" => call.ret = LevelAt(save.experience_points)

\* a character has been set to the top of a level below the maximum, one
\* whose first XP is not also its last
C14_Witness ==
    /\ call.op = "set_level"
    /\ call.ok
    /\ call.b
    /\ call.a = 3
    /\ save.experience_points = 8
    /\ save0.experience_points # 8
    /\ LevelAt(7) = 3
    /\ LevelAt(9) = 4

\* set_level(max_level, top_val=True) has been called
C14_WitnessMax ==
    /\ call.op = "set_level"
    /\ call.ok
    /\ call.b
    /\ call.a = max_level
    /\ save.experience_points = required_xp_list[max_level]

====
